---------------------------- MODULE Spec2Model ----------------------------
(***************************************************************************)
(* A model of django-admin-model-filters: the field filter inline formset  *)
(* validation, the field filter form validation, the operator catalog, the *)
(* query compiler and the model filter admin with its access checks.       *)
(*                                                                         *)
(* Python values are modelled as follows: None is the string NoneValue, a  *)
(* dict with a fixed key set is a record, a list is a sequence.            *)
(***************************************************************************)
EXTENDS Integers, Sequences, FiniteSets, TLC

VARIABLES
    cleaned_data,     \* formset: the list of the inline forms' cleaned_data dicts
    formset_error,    \* formset: outcome of clean_field_filters on cleaned_data
    fields,           \* compiler: model_filter.fields.all(), the stored clauses in id order
    query,            \* compiler: the Q object build_query_filter returned
    model,            \* catalog: the target model whose fields are looked up
    field_paths,      \* catalog: the field paths passed to get_field_operators
    field_operators,  \* catalog: the dict get_field_operators returned
    form_model,       \* clause form: the target model the form was built for
    form_data,        \* clause form: the submitted field, operator, value, negate
    form,             \* clause form: its errors, cleaned_data and value.required
    settings,         \* the MODEL_FILTERS_* settings of the site
    user,             \* access: request.user
    model_filter,     \* access: the obj the admin is asked about
    decision,         \* access: the last has_*_permission call and its result
    store,            \* admin: the ModelFilter rows, by id
    created,          \* admin: history, the owner and target each row was created with
    model_filters,    \* tables: the rows of ModelFilter
    field_filters,    \* tables: the rows of FieldFilter
    response,         \* tables: what the last request returned
    purged,           \* tables: history, the ids of the rows an apply deleted
    requests,         \* tables: the requests in flight, by request
    formset_classes   \* classes: the inline formset classes made so far

seqVars == <<cleaned_data, formset_error>>
queryVars == <<fields, query>>
opsVars == <<model, field_paths, field_operators>>
clauseVars == <<form_model, form_data, form>>
accessVars == <<user, model_filter, decision>>
storeVars == <<store, created>>
tableVars == <<model_filters, field_filters, response, purged, requests>>
classVars == <<formset_classes>>

vars == <<seqVars, queryVars, opsVars, clauseVars, settings, accessVars,
          storeVars, tableVars, classVars>>

\* The parts of the state that a specification of one part leaves alone.
adminVars == <<settings, accessVars, storeVars, tableVars, classVars>>
notSeq == <<queryVars, opsVars, clauseVars, adminVars>>
notQuery == <<seqVars, opsVars, clauseVars, adminVars>>
notOps == <<seqVars, queryVars, clauseVars, adminVars>>
notClause == <<seqVars, queryVars, opsVars, adminVars>>
notAccess ==
    <<seqVars, queryVars, opsVars, clauseVars, storeVars, tableVars, classVars>>
notStore ==
    <<seqVars, queryVars, opsVars, clauseVars, accessVars, tableVars, classVars>>

-----------------------------------------------------------------------------
(* Values shared by all parts of the model.                                 *)

\* Python's None.
NoneValue == "<None>"

\* model_filters.constants.OR_SEPARATOR: the reserved `field` value of an OR
\* separator.  Its text is not part of the sources; all that the code uses is
\* that it differs from every field path and from every operator key.
OR_SEPARATOR == "<or>"

\* The result of a step that has not run yet.
Unchecked == "<unchecked>"

\* Each part of the state before its part of the program has run.
SeqIdle ==
    /\ cleaned_data = << >>
    /\ formset_error = Unchecked

QueryIdle ==
    /\ fields = << >>
    /\ query = [op |-> Unchecked]

OpsIdle ==
    /\ model = NoneValue
    /\ field_paths = << >>
    /\ field_operators = << >>

ClauseIdle ==
    /\ form_model = NoneValue
    /\ form_data = [state |-> "unbound"]
    /\ form = [state |-> Unchecked]

AccessIdle ==
    /\ user = [name |-> NoneValue]
    /\ model_filter = [id |-> NoneValue]
    /\ decision = [action |-> Unchecked]

StoreIdle ==
    /\ store = << >>
    /\ created = << >>

TableIdle ==
    /\ model_filters = {}
    /\ field_filters = {}
    /\ response = [action |-> Unchecked]
    /\ purged = {}
    /\ requests = << >>

ClassIdle == formset_classes = << >>

AdminIdle ==
    /\ settings = [state |-> Unchecked]
    /\ AccessIdle
    /\ StoreIdle
    /\ TableIdle
    /\ ClassIdle

-----------------------------------------------------------------------------
(* FieldFilterInlineFormset.clean_field_filters (forms/inline.py).          *)

\* Longest list of inline forms submitted in one request.
MaxForms == 5

\* The ValidationError messages of clean_field_filters; NoError is its normal
\* return.
NoError == "ok"
ErrAtLeastOne == "At least one field filter is required."
ErrFirstOr == "First field filter cannot be an OR separator."
ErrLastOr == "Last field filter cannot be an OR separator."
ErrConsecutiveOr == "Cannot have consecutive OR separators."

\* One entry of the formset's cleaned_data, as clean_field_filters reads it:
\* data.get("field") (NoneValue when the key is missing, as for an unchanged
\* extra form) and data.get("DELETE", False).
CleanedForms ==
    [field : {"name", OR_SEPARATOR, NoneValue}, DELETE : BOOLEAN]

\* filters = [data for data in cleaned_data if not data.get("DELETE", False)]
RECURSIVE NotDeleted(_)
NotDeleted(data) ==
    IF data = << >> THEN << >>
    ELSE IF Head(data).DELETE THEN NotDeleted(Tail(data))
         ELSE <<Head(data)>> \o NotDeleted(Tail(data))

\* The loop `for field_filter in filters` with its flag last_filter_was_or:
\* TRUE when the loop raises.
RECURSIVE ConsecutiveOrLoop(_, _)
ConsecutiveOrLoop(filters, last_filter_was_or) ==
    IF filters = << >> THEN FALSE
    ELSE IF Head(filters).field = OR_SEPARATOR
         THEN IF last_filter_was_or THEN TRUE
              ELSE ConsecutiveOrLoop(Tail(filters), TRUE)
         ELSE ConsecutiveOrLoop(Tail(filters), FALSE)

\* A plausible slip: the deleted forms are not dropped first.
clean_field_filters_keep_deleted(data) ==
    IF Len(data) = 0 THEN ErrAtLeastOne
    ELSE IF data[1].field = OR_SEPARATOR THEN ErrFirstOr
    ELSE IF data[Len(data)].field = OR_SEPARATOR THEN ErrLastOr
    ELSE IF ConsecutiveOrLoop(data, FALSE) THEN ErrConsecutiveOr
    ELSE NoError

\* A plausible slip: the trailing separator is looked for before the leading
\* one.
clean_field_filters_last_first(data) ==
    LET filters == NotDeleted(data) IN
    IF Len(filters) = 0 THEN ErrAtLeastOne
    ELSE IF filters[Len(filters)].field = OR_SEPARATOR THEN ErrLastOr
    ELSE IF filters[1].field = OR_SEPARATOR THEN ErrFirstOr
    ELSE IF ConsecutiveOrLoop(filters, FALSE) THEN ErrConsecutiveOr
    ELSE NoError

\* clean_field_filters(cleaned_data): the message it raises, or NoError.
clean_field_filters(data) ==
    LET filters == NotDeleted(data) IN
    IF Len(filters) = 0 THEN ErrAtLeastOne
    ELSE IF filters[1].field = OR_SEPARATOR THEN ErrFirstOr
    ELSE IF filters[Len(filters)].field = OR_SEPARATOR THEN ErrLastOr
    ELSE IF ConsecutiveOrLoop(filters, FALSE) THEN ErrConsecutiveOr
    ELSE NoError

SeqInit ==
    /\ SeqIdle
    /\ QueryIdle
    /\ OpsIdle
    /\ ClauseIdle
    /\ AdminIdle

\* One more inline form of the request, with its cleaned_data.
SubmitForm(data) ==
    /\ formset_error = Unchecked
    /\ Len(cleaned_data) < MaxForms
    /\ cleaned_data' = Append(cleaned_data, data)
    /\ UNCHANGED <<formset_error, notSeq>>

\* The formset's clean() runs clean_field_filters on the request's forms.
CleanFieldFilters ==
    /\ formset_error = Unchecked
    /\ formset_error' = clean_field_filters(cleaned_data)
    /\ UNCHANGED <<cleaned_data, notSeq>>

SeqNext ==
    \/ \E data \in CleanedForms : SubmitForm(data)
    \/ CleanFieldFilters

SpecSeq == SeqInit /\ [][SeqNext]_vars

-----------------------------------------------------------------------------
(* The model fields of the target models, by class (django.db.models).      *)

\* The classes of the objects get_fields_from_path returns in the sources:
\* the field classes of the demo models and of the tests, and the tests'
\* Mock, which is no field at all.  Each with its direct base class.
FieldBases ==
    [ Field |-> {},
      CharField |-> {"Field"},
      TextField |-> {"Field"},
      FilePathField |-> {"Field"},
      IPAddressField |-> {"Field"},
      GenericIPAddressField |-> {"Field"},
      DecimalField |-> {"Field"},
      FloatField |-> {"Field"},
      IntegerField |-> {"Field"},
      DateField |-> {"Field"},
      BooleanField |-> {"Field"},
      UUIDField |-> {"Field"},
      EmailField |-> {"CharField"},
      URLField |-> {"CharField"},
      PositiveIntegerField |-> {"IntegerField"},
      PositiveSmallIntegerField |-> {"IntegerField"},
      DateTimeField |-> {"DateField"},
      ForeignKey |-> {"Field"},
      Mock |-> {},
      RaisingMock |-> {} ]

FieldClasses == DOMAIN FieldBases

\* The classes a class inherits from, itself included.
RECURSIVE Mro(_)
Mro(class) ==
    {class} \cup UNION {Mro(base) : base \in FieldBases[class]}

\* isinstance(field_obj, field_class), given type(field_obj)
IsInstance(class, field_class) == field_class \in Mro(class)

\* The fields of the demo models that their admins offer for filtering, and
\* the mocked model of the tests: get_fields_from_path(model, field_path)[-1],
\* as the class of the field.
ModelFields ==
    [ product |->
        [ name |-> "CharField", description |-> "TextField",
          width |-> "DecimalField", weight |-> "FloatField",
          min_age |-> "PositiveSmallIntegerField", invented |-> "DateField",
          released |-> "DateTimeField", flammable |-> "BooleanField",
          serial_number |-> "UUIDField", parts__material |-> "IntegerField" ],
      customer |->
        [ name |-> "CharField", email |-> "EmailField",
          first_seen |-> "DateTimeField", membership |-> "CharField" ],
      part |->
        [ name |-> "CharField", description |-> "TextField",
          part_number |-> "CharField", material |-> "IntegerField",
          version |-> "PositiveIntegerField", weight |-> "FloatField" ],
      purchase |->
        [ customer |-> "ForeignKey", product |-> "ForeignKey",
          quantity |-> "IntegerField", price |-> "DecimalField",
          product__weight |-> "FloatField",
          customer__membership |-> "CharField",
          product__parts__material |-> "IntegerField" ],
      mocked |->
        [ mock |-> "Mock", raising |-> "RaisingMock", char |-> "URLField",
          bool |-> "BooleanField", numeric |-> "DecimalField" ] ]

Models == DOMAIN ModelFields

-----------------------------------------------------------------------------
(* The query compiler: build_query_filter, make_query_filter and            *)
(* build_query_params (utilities.py), over django.db.models.Q.              *)

\* Most clauses stored for one model filter.
MaxFields == 6

\* constants.IS_NULL, IS_EMPTY, IS_TRUE, IS_FALSE: the operator keys, as the
\* operator lists of FieldFilterForm show them.
IS_NULL == "isnull"
IS_EMPTY == "isempty"
IS_TRUE == "istrue"
IS_FALSE == "isfalse"

\* Python's True, False and "" as values of a query parameter or of a row.
PyTrue == "True"
PyFalse == "False"
PyEmpty == ""

\* The FieldFilter rows of the compiler's runs: a text clause and a boolean
\* clause on the target model, each plain or negated, and the OR separator as
\* the admin stores it.
StoredFieldFilters ==
    [content_type : {"product"}, field : {"name"}, operator : {"exact"},
     value : {"A"}, negate : BOOLEAN]
    \cup [content_type : {"product"}, field : {"flammable"},
          operator : {IS_TRUE}, value : {PyEmpty}, negate : BOOLEAN]
    \cup [content_type : {"product"}, field : {OR_SEPARATOR},
          operator : {"exact"}, value : {PyEmpty}, negate : {FALSE}]

\* A Python value that is not a str, written as its repr: int("1") is
\* "int(1)".
PyValue(type, value) == type \o "(" \o value \o ")"

\* The strings of the runs that Python reads as a number.
Numerals == {"0", "1"}

\* to_python went well or raised.
Converted(value) ==
    [raised |-> NoneValue, value |-> value, message |-> ""]
Raises(exception, message) ==
    [raised |-> exception, value |-> NoneValue, message |-> message]

\* ValidationError(self.error_messages["invalid"], params={"value": value})
Invalid(value, must) ==
    Raises("ValidationError", "'" \o value \o "' value " \o must)

\* model_field.to_python(value) for a str value, by the class of the model
\* field: the text fields return the string, the numeric fields parse it,
\* BooleanField reads "1" and "0", the date fields and UUIDField want their
\* formats, ForeignKey converts as the integer key it targets, and the
\* tests' Mock returns whatever it is set up with.
to_python(class, value) ==
    IF class = "Mock" THEN Converted(PyValue("Mock", ""))
    ELSE IF class = "RaisingMock" THEN Raises("ValueError", "Bad value!")
    ELSE IF Mro(class) \cap {"IntegerField", "ForeignKey"} # {}
    THEN IF value \in Numerals THEN Converted(PyValue("int", value))
         ELSE Invalid(value, "must be an integer.")
    ELSE IF "FloatField" \in Mro(class)
    THEN IF value \in Numerals THEN Converted(PyValue("float", value))
         ELSE Invalid(value, "must be a float.")
    ELSE IF "DecimalField" \in Mro(class)
    THEN IF value \in Numerals THEN Converted(PyValue("Decimal", value))
         ELSE Invalid(value, "must be a decimal number.")
    ELSE IF "BooleanField" \in Mro(class)
    THEN IF value = "1" THEN Converted(PyTrue)
         ELSE IF value = "0" THEN Converted(PyFalse)
         ELSE Invalid(value, "must be either True or False.")
    ELSE IF "DateTimeField" \in Mro(class)
    THEN Invalid(value, "has an invalid format.")
    ELSE IF "DateField" \in Mro(class)
    THEN Invalid(value, "has an invalid date format.")
    ELSE IF "UUIDField" \in Mro(class)
    THEN Raises("ValidationError", "'" \o value \o "' is not a valid UUID.")
    ELSE Converted(value)

\* get_fields_from_path(
\*     field.model_filter.content_type.model_class(), field.field)[-1]
\* as the class of the model field; each FieldFilter row carries the content
\* type of its model filter.
model_field(field) == ModelFields[field.content_type][field.field]

\* A plausible slip: the stored string is passed on as it is.
build_query_params_unconverted(field) ==
    IF field.operator = IS_NULL
    THEN [key |-> field.field, lookup |-> "", value |-> NoneValue]
    ELSE IF field.operator = IS_EMPTY
    THEN [key |-> field.field, lookup |-> "", value |-> PyEmpty]
    ELSE IF field.operator = IS_TRUE
    THEN [key |-> field.field, lookup |-> "", value |-> PyTrue]
    ELSE IF field.operator = IS_FALSE
    THEN [key |-> field.field, lookup |-> "", value |-> PyFalse]
    ELSE [key |-> field.field, lookup |-> field.operator,
          value |-> field.value]

\* build_query_params(field): the one keyword argument of the clause's Q, as
\* [key, lookup, value] for the keyword key__lookup (lookup "" for key alone);
\* when to_python raises, the exception leaves build_query_params.
build_query_params(field) ==
    IF field.operator = IS_NULL
    THEN [key |-> field.field, lookup |-> "", value |-> NoneValue]
    ELSE IF field.operator = IS_EMPTY
    THEN [key |-> field.field, lookup |-> "", value |-> PyEmpty]
    ELSE IF field.operator = IS_TRUE
    THEN [key |-> field.field, lookup |-> "", value |-> PyTrue]
    ELSE IF field.operator = IS_FALSE
    THEN [key |-> field.field, lookup |-> "", value |-> PyFalse]
    ELSE LET python == to_python(model_field(field), field.value)
         IN  IF python.raised # NoneValue THEN python
             ELSE [key |-> field.field, lookup |-> field.operator,
                   value |-> python.value]

\* django.db.models.Q as a tree: Q() has no children, Q(**params) is a leaf,
\* ~q negates, and q1 & q2, q1 | q2 join two trees.
QEmpty == [op |-> "empty"]
QLeaf(params) == [op |-> "leaf", params |-> params]
QNot(q) == [op |-> "not", arg |-> q]

\* Q._combine: an empty operand is ignored and the other one returned.
QCombine(q1, q2, conn) ==
    IF q2.op = "empty" THEN q1
    ELSE IF q1.op = "empty" THEN q2
    ELSE [op |-> conn, left |-> q1, right |-> q2]

QAnd(q1, q2) == QCombine(q1, q2, "and")
QOr(q1, q2) == QCombine(q1, q2, "or")

\* A plausible slip: the negate flag is not read.
make_query_filter_plain(field) ==
    QAnd(QEmpty, QLeaf(build_query_params(field)))

\* make_query_filter(field)
make_query_filter(field) ==
    LET query_params == build_query_params(field) IN
    IF field.negate
    THEN QAnd(QEmpty, QNot(QLeaf(query_params)))
    ELSE QAnd(QEmpty, QLeaf(query_params))

\* reduce(or_, queries), queries not empty.
RECURSIVE ReduceOr(_, _)
ReduceOr(acc, queries) ==
    IF queries = << >> THEN acc
    ELSE ReduceOr(QOr(acc, Head(queries)), Tail(queries))

\* The end of build_query_filter, after its loop.
BuildQueryFilterEnd(query_to_and, queries_to_or) ==
    IF queries_to_or # << >>
    THEN LET all == Append(queries_to_or, query_to_and)
         IN ReduceOr(Head(all), Tail(all))
    ELSE query_to_and

\* A plausible slip in the loop below: the accumulator is not reset at a
\* separator.
RECURSIVE BuildQueryFilterLoopNoReset(_, _, _)
BuildQueryFilterLoopNoReset(rest, query_to_and, queries_to_or) ==
    IF rest = << >> THEN BuildQueryFilterEnd(query_to_and, queries_to_or)
    ELSE IF Head(rest).field = OR_SEPARATOR
    THEN BuildQueryFilterLoopNoReset(Tail(rest), query_to_and,
                                     Append(queries_to_or, query_to_and))
    ELSE BuildQueryFilterLoopNoReset(
             Tail(rest), QAnd(query_to_and, make_query_filter(Head(rest))),
             queries_to_or)

build_query_filter_no_reset(stored) ==
    BuildQueryFilterLoopNoReset(stored, QEmpty, << >>)

\* The loop of build_query_filter over model_filter.fields.all().
RECURSIVE BuildQueryFilterLoop(_, _, _)
BuildQueryFilterLoop(rest, query_to_and, queries_to_or) ==
    IF rest = << >> THEN BuildQueryFilterEnd(query_to_and, queries_to_or)
    ELSE IF Head(rest).field = OR_SEPARATOR
    THEN BuildQueryFilterLoop(Tail(rest), QEmpty,
                              Append(queries_to_or, query_to_and))
    ELSE BuildQueryFilterLoop(
             Tail(rest), QAnd(query_to_and, make_query_filter(Head(rest))),
             queries_to_or)

\* build_query_filter(model_filter), given model_filter.fields.all().
build_query_filter(stored) == BuildQueryFilterLoop(stored, QEmpty, << >>)

\* The rows of the target model that a query is run against.
Rows == [name : {"A", "B"}, flammable : {PyTrue, PyFalse}]

\* Whether a row meets one keyword argument of a Q: the lookups exact and
\* none compare for equality.
ParamsHold(params, row) == row[params.key] = params.value

\* queryset.filter(q): whether the row is selected.  Q() selects every row.
RECURSIVE Selects(_, _)
Selects(q, row) ==
    CASE q.op = "empty" -> TRUE
      [] q.op = "leaf" -> ParamsHold(q.params, row)
      [] q.op = "not" -> ~Selects(q.arg, row)
      [] q.op = "and" -> Selects(q.left, row) /\ Selects(q.right, row)
      [] q.op = "or" -> Selects(q.left, row) \/ Selects(q.right, row)

QueryInit ==
    /\ SeqIdle
    /\ QueryIdle
    /\ OpsIdle
    /\ ClauseIdle
    /\ AdminIdle

\* One more FieldFilter row is stored for the model filter.
StoreFieldFilter(field) ==
    /\ query.op = Unchecked
    /\ Len(fields) < MaxFields
    /\ fields' = Append(fields, field)
    /\ UNCHANGED <<query, notQuery>>

\* The list filter compiles the model filter.
BuildQueryFilter ==
    /\ query.op = Unchecked
    /\ query' = build_query_filter(fields)
    /\ UNCHANGED <<fields, notQuery>>

QueryNext ==
    \/ \E field \in StoredFieldFilters : StoreFieldFilter(field)
    \/ BuildQueryFilter

SpecQuery == QueryInit /\ [][QueryNext]_vars

-----------------------------------------------------------------------------
(* The operator catalog of FieldFilterForm (forms/field_filter.py) and      *)
(* get_field_operators (utilities.py).                                      *)

\* Most field paths in one call of get_field_operators.
MaxPaths == 2

\* An operator of the catalog: the (key, display) tuple of the form.
Op(key, display) == [key |-> key, display |-> display]

DEFAULT_OPERATORS ==
    << Op("exact", "Equals (exact)"), Op(IS_NULL, "Is NULL") >>

BOOLEAN_OPERATORS ==
    << Op(IS_TRUE, "Is TRUE"), Op(IS_FALSE, "Is FALSE"), Op(IS_NULL, "Is NULL") >>

TEXT_OPERATORS ==
    << Op("exact", "Equals (case-sensitive)"),
       Op("iexact", "Equals (ignore case)"),
       Op("contains", "Contains (case-sensitive)"),
       Op("icontains", "Contains (ignore case)"),
       Op("regex", "Regex Match (case-sensitive)"),
       Op("iregex", "Regex Match (ignore case)"),
       Op(IS_EMPTY, "Is Empty"),
       Op(IS_NULL, "Is NULL") >>

NUMERIC_OPERATORS ==
    << Op("exact", "Equals (numeric)"),
       Op("lt", "Less Than"),
       Op("gt", "Greater Than"),
       Op("lte", "Less Than or Equal To"),
       Op("gte", "Greater Than or Equal To"),
       Op(IS_NULL, "Is NULL") >>

DATE_OPERATORS ==
    << Op("exact", "Equals (date/time)"),
       Op("lt", "Less Than"),
       Op("gt", "Greater Than"),
       Op("lte", "Less Than or Equal To"),
       Op("gte", "Greater Than or Equal To"),
       Op(IS_NULL, "Is NULL") >>

UUID_OPERATORS ==
    << Op("exact", "Equals (UUID)"), Op(IS_NULL, "Is NULL") >>

\* For choices validation only.
OPERATORS ==
    BOOLEAN_OPERATORS \o TEXT_OPERATORS \o NUMERIC_OPERATORS
        \o DATE_OPERATORS \o UUID_OPERATORS

\* Operators that can be used with no value.
NO_VALUE_OPERATORS == {IS_NULL, IS_TRUE, IS_FALSE, IS_EMPTY, OR_SEPARATOR}

\* Mapping of field classes to valid operators, in the dict's order.
OPERATOR_MAP ==
    << <<"CharField", TEXT_OPERATORS>>,
       <<"TextField", TEXT_OPERATORS>>,
       <<"FilePathField", TEXT_OPERATORS>>,
       <<"IPAddressField", TEXT_OPERATORS>>,
       <<"GenericIPAddressField", TEXT_OPERATORS>>,
       <<"DecimalField", NUMERIC_OPERATORS>>,
       <<"FloatField", NUMERIC_OPERATORS>>,
       <<"IntegerField", NUMERIC_OPERATORS>>,
       <<"DateField", DATE_OPERATORS>>,
       <<"BooleanField", BOOLEAN_OPERATORS>>,
       <<"UUIDField", UUID_OPERATORS>> >>

\* A plausible slip in the loop below: only the exact class is looked up.
RECURSIVE OperatorMapLoopExactOnly(_, _, _)
OperatorMapLoopExactOnly(class, items, operators) ==
    IF items = << >> THEN operators
    ELSE IF class = Head(items)[1] THEN Head(items)[2]
    ELSE OperatorMapLoopExactOnly(class, Tail(items), operators)

\* The loop `for field_class, valid_operators in OPERATOR_MAP.items()`:
\* an exact match of the class breaks the loop, a subclass match is kept
\* only while nothing was found before.  << >> stands for `operators = None`.
RECURSIVE OperatorMapLoop(_, _, _)
OperatorMapLoop(class, items, operators) ==
    IF items = << >> THEN operators
    ELSE IF class = Head(items)[1] THEN Head(items)[2]
    ELSE IF operators = << >> /\ IsInstance(class, Head(items)[1])
         THEN OperatorMapLoop(class, Tail(items), Head(items)[2])
         ELSE OperatorMapLoop(class, Tail(items), operators)

FieldOperatorsExactOnly(class, operator_map) ==
    LET operators == OperatorMapLoopExactOnly(class, operator_map, << >>) IN
    IF operators = << >> THEN DEFAULT_OPERATORS ELSE operators

\* A plausible slip in the loop: the first entry the field is an instance
\* of decides, an exact match later in the map is not looked for.
RECURSIVE OperatorMapLoopFirstMatch(_, _)
OperatorMapLoopFirstMatch(class, items) ==
    IF items = << >> THEN << >>
    ELSE IF IsInstance(class, Head(items)[1]) THEN Head(items)[2]
    ELSE OperatorMapLoopFirstMatch(class, Tail(items))

FieldOperatorsFirstMatch(class, operator_map) ==
    LET operators == OperatorMapLoopFirstMatch(class, operator_map) IN
    IF operators = << >> THEN DEFAULT_OPERATORS ELSE operators

\* The operators get_field_operators gives one field, by the field's class.
FieldOperators(class, operator_map) ==
    LET operators == OperatorMapLoop(class, operator_map, << >>) IN
    IF operators = << >> THEN DEFAULT_OPERATORS ELSE operators

\* get_field_operators(model, field_paths, field_form): the dict from each
\* field path to its operators.
get_field_operators(target, paths) ==
    [ path \in {paths[i] : i \in 1..Len(paths)} |->
        FieldOperators(ModelFields[target][path], OPERATOR_MAP) ]

OpsInit ==
    /\ SeqIdle
    /\ QueryIdle
    /\ ClauseIdle
    /\ AdminIdle
    /\ model \in Models
    /\ field_paths = << >>
    /\ field_operators = << >>

\* One more field path of the model admin's model_filter_fields.
AddFieldPath(path) ==
    /\ field_operators = << >>
    /\ Len(field_paths) < MaxPaths
    /\ field_paths' = Append(field_paths, path)
    /\ UNCHANGED <<model, field_operators, notOps>>

\* get_field_data calls get_field_operators for the model's field paths.
GetFieldOperators ==
    /\ field_operators = << >>
    /\ field_paths # << >>
    /\ field_operators' = get_field_operators(model, field_paths)
    /\ UNCHANGED <<model, field_paths, notOps>>

OpsNext ==
    \/ \E path \in DOMAIN ModelFields[model] : AddFieldPath(path)
    \/ GetFieldOperators

SpecOps == OpsInit /\ [][OpsNext]_vars

-----------------------------------------------------------------------------
(* FieldFilterForm (forms/field_filter.py): the validation of one clause.   *)
(* full_clean() of the bound form runs the declared form fields, then       *)
(* clean() with _clean_operator and _clean_value, then the validation of    *)
(* the FieldFilter instance built from cleaned_data.                        *)

\* Error messages, by the code that identifies them.
ErrRequired == "This field is required."
ErrInvalidChoice == "Select a valid choice."
ErrNull == "This field cannot be null."
ErrBlank == "This field cannot be blank."
ErrOperatorNotAllowed == "Operator is not allowed for this field."

\* field.get_internal_type(): the name of the class, or of the class the
\* field is stored as; the mocks of the tests answer "MockField".
get_internal_type(class) ==
    IF class \in {"Mock", "RaisingMock"} THEN "MockField"
    ELSE IF "CharField" \in Mro(class) THEN "CharField"
    ELSE class

\* "Value is not valid for field ({field_type}): {msg}"
ErrValueNotValid(field_type, msg) ==
    "Value is not valid for field (" \o field_type \o "): " \o msg

\* The keys of the operators the operator input offers.
OperatorKeys == {OPERATORS[i].key : i \in 1..Len(OPERATORS)}

\* field_choices of the form: the filterable fields of the target model, and
\* EXTRA_FIELD_CHOICES.
FieldChoices(target) == DOMAIN ModelFields[target] \cup {OR_SEPARATOR}

\* field_operators of the form, as get_field_data passes it.
FormFieldOperators(target) ==
    [ path \in DOMAIN ModelFields[target] |->
        FieldOperators(ModelFields[target][path], OPERATOR_MAP) ]

\* What a user can submit for one clause.
FieldInputs(target) == FieldChoices(target) \cup {"", "bogus"}
OperatorInputs == OperatorKeys \cup {"", "smooth"}
ValueInputs == {"", "junk", "1"}

\* field.to_python(value) raises, a ValidationError or any other exception.
ConversionFails(class, value) == to_python(class, value).raised # NoneValue

\* message: str(error), or the joined messages of a ValidationError; each
\* ValidationError of a model field carries one message.
ConversionMessage(class, value) == to_python(class, value).message

\* Every message a failed conversion can leave on a value input.
ValueNotValidMessages ==
    { ErrValueNotValid(get_internal_type(class),
                       ConversionMessage(class, value)) :
        class \in FieldClasses, value \in ValueInputs }

\* self.add_error(name, message): the message joins the errors of the input
\* and the input leaves cleaned_data.
add_error(f, name, message) ==
    [f EXCEPT !.errors[name] = Append(@, message),
              !.cleaned_data[name] = NoneValue]

\* A required ChoiceField of the form.
CleanChoice(f, name, raw, choices) ==
    IF raw = "" THEN add_error(f, name, ErrRequired)
    ELSE IF raw \notin choices THEN add_error(f, name, ErrInvalidChoice)
    ELSE [f EXCEPT !.cleaned_data[name] = raw]

\* The form fields field, operator, value and negate, as declared.
CleanFields(target, d) ==
    LET f0 == [ state |-> "cleaned",
                errors |-> [field |-> << >>, operator |-> << >>,
                            value |-> << >>],
                cleaned_data |-> [field |-> NoneValue, operator |-> NoneValue,
                                  value |-> NoneValue, negate |-> d.negate],
                value_required |-> TRUE ]
        f1 == CleanChoice(f0, "field", d.field, FieldChoices(target))
        f2 == CleanChoice(f1, "operator", d.operator, OperatorKeys)
    IN  IF d.value = "" THEN add_error(f2, "value", ErrRequired)
        ELSE [f2 EXCEPT !.cleaned_data.value = d.value]

\* Slips of _clean_operator: the separator is checked like a field; the
\* operator is checked against no field at all.
clean_operator_checks_separator(target, f) ==
    LET field == f.cleaned_data.field
        operator == f.cleaned_data.operator
    IN  IF field = NoneValue THEN [ret |-> NoneValue, form |-> f]
        ELSE IF operator = NoneValue THEN [ret |-> NoneValue, form |-> f]
        ELSE IF (field \notin DOMAIN FormFieldOperators(target)
                 \/ \A i \in 1..Len(FormFieldOperators(target)[field]) :
                       FormFieldOperators(target)[field][i].key # operator)
             THEN [ret |-> operator,
                   form |-> add_error(f, "operator", ErrOperatorNotAllowed)]
             ELSE [ret |-> operator, form |-> f]

clean_operator_any_field(target, f) ==
    LET field == f.cleaned_data.field
        operator == f.cleaned_data.operator
    IN  IF field = NoneValue THEN [ret |-> NoneValue, form |-> f]
        ELSE IF operator = NoneValue THEN [ret |-> NoneValue, form |-> f]
        ELSE [ret |-> operator, form |-> f]

\* _clean_operator: what it returns and what it does to the form.
clean_operator(target, f) ==
    LET field == f.cleaned_data.field
        operator == f.cleaned_data.operator
        operator_dicts ==
            IF field \in DOMAIN FormFieldOperators(target)
            THEN FormFieldOperators(target)[field] ELSE << >>
    IN  IF field = NoneValue THEN [ret |-> NoneValue, form |-> f]
        ELSE IF operator = NoneValue THEN [ret |-> NoneValue, form |-> f]
        ELSE IF field # OR_SEPARATOR
                /\ \A i \in 1..Len(operator_dicts) :
                      operator_dicts[i].key # operator
             THEN [ret |-> operator,
                   form |-> add_error(f, "operator", ErrOperatorNotAllowed)]
             ELSE [ret |-> operator, form |-> f]

\* A slip of _clean_value: the errors of the value input are left in place.
clean_value_keeps_errors(target, f) ==
    LET field_path == f.cleaned_data.field
        operator == f.cleaned_data.operator
        value == f.cleaned_data.value
    IN  IF field_path = NoneValue THEN [ret |-> NoneValue, form |-> f]
        ELSE IF operator = NoneValue THEN [ret |-> NoneValue, form |-> f]
        ELSE IF field_path = OR_SEPARATOR \/ operator \in NO_VALUE_OPERATORS
             THEN [ret |-> "", form |-> [f EXCEPT !.value_required = FALSE]]
        ELSE IF value = NoneValue THEN [ret |-> value, form |-> f]
        ELSE IF ConversionFails(ModelFields[target][field_path], value)
             THEN [ret |-> value,
                   form |-> add_error(f, "value",
                       ErrValueNotValid(
                           get_internal_type(ModelFields[target][field_path]),
                           ConversionMessage(ModelFields[target][field_path],
                                             value)))]
             ELSE [ret |-> value, form |-> f]

\* A slip of _clean_value: the message names the field's type but leaves out
\* what the conversion reported.
clean_value_drops_text(target, f) ==
    LET field_path == f.cleaned_data.field
        operator == f.cleaned_data.operator
        value == f.cleaned_data.value
    IN  IF field_path = NoneValue THEN [ret |-> NoneValue, form |-> f]
        ELSE IF operator = NoneValue THEN [ret |-> NoneValue, form |-> f]
        ELSE IF field_path = OR_SEPARATOR \/ operator \in NO_VALUE_OPERATORS
             THEN [ret |-> "",
                   form |-> [f EXCEPT !.value_required = FALSE,
                                      !.errors.value = << >>]]
        ELSE IF value = NoneValue THEN [ret |-> value, form |-> f]
        ELSE IF ConversionFails(ModelFields[target][field_path], value)
             THEN [ret |-> value,
                   form |-> add_error(f, "value",
                       ErrValueNotValid(
                           get_internal_type(ModelFields[target][field_path]),
                           ""))]
             ELSE [ret |-> value, form |-> f]

\* _clean_value: what it returns and what it does to the form.
clean_value(target, f) ==
    LET field_path == f.cleaned_data.field
        operator == f.cleaned_data.operator
        value == f.cleaned_data.value
    IN  IF field_path = NoneValue THEN [ret |-> NoneValue, form |-> f]
        ELSE IF operator = NoneValue THEN [ret |-> NoneValue, form |-> f]
        ELSE IF field_path = OR_SEPARATOR \/ operator \in NO_VALUE_OPERATORS
             THEN [ret |-> "",
                   form |-> [f EXCEPT !.value_required = FALSE,
                                      !.errors.value = << >>]]
        ELSE IF value = NoneValue THEN [ret |-> value, form |-> f]
        ELSE IF ConversionFails(ModelFields[target][field_path], value)
             THEN [ret |-> value,
                   form |-> add_error(f, "value",
                       ErrValueNotValid(
                           get_internal_type(ModelFields[target][field_path]),
                           ConversionMessage(ModelFields[target][field_path],
                                             value)))]
             ELSE [ret |-> value, form |-> f]

\* clean(): cleaned_data takes what _clean_operator and _clean_value return.
clean(target, f) ==
    LET op == clean_operator(target, f)
        f1 == [op.form EXCEPT !.cleaned_data.operator = op.ret]
        val == clean_value(target, f1)
    IN  [val.form EXCEPT !.cleaned_data.value = val.ret]

\* The FieldFilter instance is validated on the inputs that have no error
\* yet; an empty input that the form does not require is left out.  The
\* model's field, operator and value are neither null nor blank.
ModelValidation(f, name, required) ==
    IF f.errors[name] # << >> THEN f
    ELSE IF ~required /\ f.cleaned_data[name] \in {NoneValue, ""} THEN f
    ELSE IF f.cleaned_data[name] = NoneValue
         THEN add_error(f, name, ErrNull)
    ELSE IF f.cleaned_data[name] = ""
         THEN add_error(f, name, ErrBlank)
    ELSE f

PostClean(f) ==
    LET f1 == ModelValidation(f, "field", TRUE)
        f2 == ModelValidation(f1, "operator", TRUE)
    IN  ModelValidation(f2, "value", f.value_required)

\* full_clean() of the form bound to d.
full_clean(target, d) == PostClean(clean(target, CleanFields(target, d)))

ClauseInit ==
    /\ SeqIdle
    /\ QueryIdle
    /\ OpsIdle
    /\ AdminIdle
    /\ form_model \in Models
    /\ form_data = [state |-> "unbound"]
    /\ form = [state |-> Unchecked]

\* The form is bound to the submitted clause.
BindForm(field, operator, value, negate) ==
    /\ form_data.state = "unbound"
    /\ form_data' = [state |-> "bound", field |-> field, operator |-> operator,
                value |-> value, negate |-> negate]
    /\ UNCHANGED <<form_model, form, notClause>>

\* is_valid() cleans the form.
FullClean ==
    /\ form_data.state = "bound"
    /\ form.state = Unchecked
    /\ form' = full_clean(form_model, form_data)
    /\ UNCHANGED <<form_model, form_data, notClause>>

ClauseNext ==
    \/ \E field \in FieldInputs(form_model), operator \in OperatorInputs,
          value \in ValueInputs, negate \in BOOLEAN :
          BindForm(field, operator, value, negate)
    \/ FullClean

SpecClause == ClauseInit /\ [][ClauseNext]_vars

-----------------------------------------------------------------------------
(* Access control: user_can_access_content_type and user_has_permission     *)
(* (utilities.py) and has_view/change/delete_permission of the model        *)
(* filter admin (admin/model_filter.py).                                    *)

\* The content types (target models) filters are made for.
ContentTypes == {"product", "customer"}

\* The permissions asked of user.has_perm.
ModelPerm(action, content_type) == "core." \o action \o "_" \o content_type
FilterPerm(action) == "model_filters." \o action \o "_modelfilter"

FilterPerms == {FilterPerm(action) : action \in {"view", "change", "delete"}}

\* The settings the site can have: the owner-only settings and use_guardian().
Settings ==
    [ view_owner_only : BOOLEAN, change_owner_only : BOOLEAN,
      delete_owner_only : BOOLEAN, use_guardian : BOOLEAN ]

\* user.has_perm(perm), without an object: a superuser has every permission,
\* any other user the permissions granted to them.
has_perm(u, perm) == u.is_superuser \/ perm \in u.perms

user_can_access_content_type(u, content_type) ==
    LET has_view_perm == has_perm(u, ModelPerm("view", content_type))
        has_change_perm == has_perm(u, ModelPerm("change", content_type))
    IN  has_view_perm \/ has_change_perm

\* model_filter is None: no filter is asked about.
IsNone(f) == "owner" \notin DOMAIN f

\* Slips of user_has_permission: the owner is asked for before the access to
\* the target model; the owner-only setting is asked for before the owner.
user_has_permission_owner_first(u, owner_only, f) ==
    IF u.is_superuser \/ IsNone(f) THEN "True"
    ELSE IF u.name = f.owner THEN "True"
    ELSE IF ~user_can_access_content_type(u, f.content_type) THEN "False"
    ELSE IF owner_only THEN "False"
    ELSE "None"

user_has_permission_setting_first(u, owner_only, f) ==
    IF u.is_superuser \/ IsNone(f) THEN "True"
    ELSE IF ~user_can_access_content_type(u, f.content_type) THEN "False"
    ELSE IF owner_only THEN "False"
    ELSE IF u.name = f.owner THEN "True"
    ELSE "None"

\* More slips of user_has_permission: the owner-only setting is not looked
\* at; a superuser is treated like any member of staff.
user_has_permission_ignores_setting(u, owner_only, f) ==
    IF u.is_superuser \/ IsNone(f) THEN "True"
    ELSE IF ~user_can_access_content_type(u, f.content_type) THEN "False"
    ELSE IF u.name = f.owner THEN "True"
    ELSE "None"

user_has_permission_superuser_as_staff(u, owner_only, f) ==
    IF IsNone(f) THEN "True"
    ELSE IF ~user_can_access_content_type(u, f.content_type) THEN "False"
    ELSE IF u.name = f.owner THEN "True"
    ELSE IF owner_only THEN "False"
    ELSE "None"

\* user_has_permission: True, False or None; owner_only is the value of the
\* setting it is called with.
user_has_permission(u, owner_only, f) ==
    IF u.is_superuser \/ IsNone(f) THEN "True"
    ELSE IF ~user_can_access_content_type(u, f.content_type) THEN "False"
    ELSE IF u.name = f.owner THEN "True"
    ELSE IF owner_only THEN "False"
    ELSE "None"

\* has_view_permission of the admin; None falls back on ModelAdmin's: the
\* view or the change permission on model filters.  The admin registered
\* when guardian is in use, GuardedModelFilterAdmin, has the same three
\* methods: guardian's GuardedModelAdmin adds the pages that manage object
\* permissions and overrides none of them, and ModelAdmin asks has_perm
\* without the object.
has_view_permission(u, conf, f) ==
    LET permission == user_has_permission(u, conf.view_owner_only, f) IN
    IF permission = "None"
    THEN has_perm(u, FilterPerm("view")) \/ has_perm(u, FilterPerm("change"))
    ELSE permission = "True"

has_change_permission(u, conf, f) ==
    LET permission == user_has_permission(u, conf.change_owner_only, f) IN
    IF permission = "None"
    THEN has_perm(u, FilterPerm("change"))
    ELSE permission = "True"

has_delete_permission(u, conf, f) ==
    LET permission == user_has_permission(u, conf.delete_owner_only, f) IN
    IF permission = "None"
    THEN has_perm(u, FilterPerm("delete"))
    ELSE permission = "True"

\* A slip of has_add_permission: the content type of the request is not
\* asked for.
has_add_permission_any_target(u, content_type) ==
    IF u.is_superuser THEN TRUE
    ELSE user_can_access_content_type(u, content_type)

has_add_permission(u, content_type) ==
    IF content_type = NoneValue THEN FALSE
    ELSE IF u.is_superuser THEN TRUE
    ELSE user_can_access_content_type(u, content_type)

\* The users that ask, and the filters they ask about: alice's and bob's, on
\* either target model, and no filter at all (obj=None).  A user holds
\* permissions on model classes (perms) and, through guardian, on the filter
\* asked about (object_perms); a superuser needs neither.
Requesters ==
    [ name : {"alice"}, is_superuser : {FALSE},
      perms : SUBSET (FilterPerms \cup {ModelPerm("view", "product"),
                                        ModelPerm("change", "product"),
                                        ModelPerm("view", "customer")}),
      object_perms : SUBSET FilterPerms ]
        \cup [ name : {"alice"}, is_superuser : {TRUE}, perms : {{}},
               object_perms : {{}} ]

RequestedFilters ==
    [id : {1}, owner : {"alice", "bob"}, content_type : ContentTypes]
        \cup {[id |-> NoneValue]}

AccessInit ==
    /\ SeqIdle
    /\ QueryIdle
    /\ OpsIdle
    /\ ClauseIdle
    /\ StoreIdle
    /\ TableIdle
    /\ ClassIdle
    /\ settings \in Settings
    /\ user \in Requesters
    /\ model_filter \in RequestedFilters
    /\ decision = [action |-> Unchecked]

HasViewPermission ==
    /\ decision' = [action |-> "view",
                    granted |-> has_view_permission(user, settings, model_filter)]
    /\ UNCHANGED <<settings, user, model_filter, notAccess>>

HasChangePermission ==
    /\ decision' = [action |-> "change",
                    granted |-> has_change_permission(user, settings, model_filter)]
    /\ UNCHANGED <<settings, user, model_filter, notAccess>>

HasDeletePermission ==
    /\ decision' = [action |-> "delete",
                    granted |-> has_delete_permission(user, settings, model_filter)]
    /\ UNCHANGED <<settings, user, model_filter, notAccess>>

\* has_add_permission, with the content type the request carries, if any.
HasAddPermission(content_type) ==
    /\ decision' = [action |-> "add", content_type |-> content_type,
                    granted |-> has_add_permission(user, content_type)]
    /\ UNCHANGED <<settings, user, model_filter, notAccess>>

AccessNext ==
    \/ HasViewPermission
    \/ HasChangePermission
    \/ HasDeletePermission
    \/ \E content_type \in ContentTypes \cup {NoneValue} :
          HasAddPermission(content_type)

SpecAccess == AccessInit /\ [][AccessNext]_vars

-----------------------------------------------------------------------------
(* The model filter admin (admin/model_filter.py): adding and changing      *)
(* model filters, over the rows its queryset (managers/model_filter.py)     *)
(* lets a user reach.                                                       *)

\* Most model filters in the table.
MaxFilters == 1

\* The users of the site: a superuser and two members of staff; view_objects
\* are the model filters a user holds guardian's view permission on.
Staff ==
    { [ name |-> "root", is_superuser |-> TRUE, perms |-> {},
        view_objects |-> {} ],
      [ name |-> "alice", is_superuser |-> FALSE,
        perms |-> {ModelPerm("view", "product")}, view_objects |-> {1} ],
      [ name |-> "bob", is_superuser |-> FALSE,
        perms |-> {ModelPerm("change", "product"),
                   ModelPerm("view", "customer"),
                   FilterPerm("view"), FilterPerm("change")},
        view_objects |-> {} ] }

StaffNames == {u.name : u \in Staff}

\* get_objects_for_user(user, "view_modelfilter", ModelFilter) has the row:
\* by the permission on all model filters or on this one.
get_objects_for_user(u, f) ==
    has_perm(u, FilterPerm("view")) \/ f.id \in u.view_objects

\* A slip of for_user: only the permission on all model filters is asked for.
for_user_class_only(u, conf, f) ==
    IF conf.view_owner_only THEN f.owner = u.name
    ELSE IF ~has_perm(u, FilterPerm("view")) THEN f.owner = u.name
    ELSE TRUE

\* A slip of for_user: only the rows the user owns are returned.
for_user_owner_only(u, conf, f) == f.owner = u.name

\* ModelFilterQuerySet.for_user(user) has the row.
for_user(u, conf, f) ==
    IF conf.view_owner_only THEN f.owner = u.name
    ELSE IF conf.use_guardian
         THEN f.owner = u.name \/ get_objects_for_user(u, f)
    ELSE IF ~has_perm(u, FilterPerm("view")) THEN f.owner = u.name
    ELSE TRUE

\* get_queryset(request) of the admin has the row.
get_queryset(u, conf, f) == u.is_superuser \/ for_user(u, conf, f)

\* A slip of save_form: the flag the model filter had is left as it was.
save_form_keeps_flag(model_filter_row, u, apply_discard) ==
    [model_filter_row EXCEPT !.owner = u.name]

\* save_form: the owner is the user of the request, the filter is ephemeral
\* if it was saved with "apply and discard".
save_form(model_filter_row, u, apply_discard) ==
    [model_filter_row EXCEPT !.owner = u.name, !.ephemeral = apply_discard]

Init ==
    /\ SeqIdle
    /\ QueryIdle
    /\ OpsIdle
    /\ ClauseIdle
    /\ AccessIdle
    /\ settings \in Settings
    /\ store = << >>
    /\ created = << >>
    /\ TableIdle
    /\ ClassIdle

\* The add view, posted by u for the content type of the URL; the form takes
\* the posted owner and content type as its only choices.
AddFilter(u, url_content_type, posted_owner, posted_content_type, discard) ==
    /\ Len(store) < MaxFilters
    /\ has_add_permission(u, url_content_type)
    /\ LET row == save_form([ id |-> Len(store) + 1,
                              owner |-> posted_owner,
                              content_type |-> posted_content_type,
                              ephemeral |-> FALSE ], u, discard)
       IN  /\ store' = Append(store, row)
           /\ created' = Append(created, [owner |-> row.owner,
                                          content_type |-> row.content_type])
    /\ UNCHANGED <<settings, notStore>>

\* The change view of row id, posted by u; the form takes the owner and the
\* content type of the row as its only choices.
ChangeFilter(u, id, posted_owner, posted_content_type, discard) ==
    /\ id \in 1..Len(store)
    /\ get_queryset(u, settings, store[id])
    /\ has_change_permission(u, settings, store[id])
    /\ posted_owner = store[id].owner
    /\ posted_content_type = store[id].content_type
    /\ store' = [store EXCEPT ![id] =
                    save_form([@ EXCEPT !.owner = posted_owner,
                                        !.content_type = posted_content_type],
                              u, discard)]
    /\ UNCHANGED <<created, settings, notStore>>

Next ==
    \/ \E u \in Staff, url_content_type \in ContentTypes,
          posted_owner \in StaffNames, posted_content_type \in ContentTypes,
          discard \in BOOLEAN :
          AddFilter(u, url_content_type, posted_owner, posted_content_type,
                    discard)
    \/ \E u \in Staff, id \in 1..MaxFilters, posted_owner \in StaffNames,
          posted_content_type \in ContentTypes, discard \in BOOLEAN :
          ChangeFilter(u, id, posted_owner, posted_content_type, discard)

Spec == Init /\ [][Next]_vars

-----------------------------------------------------------------------------
(* ModelFilterQuerySet.for_user (managers/model_filter.py) over a table of  *)
(* model filters.                                                           *)

\* The model filters in the table that is listed.
MaxRows == 3

\* The users that list: with or without the permissions on all model
\* filters, with guardian's view permission on some of the rows.
ListingUsers ==
    [ name : {"alice"}, is_superuser : BOOLEAN,
      perms : SUBSET {FilterPerm("view"), FilterPerm("change")},
      view_objects : SUBSET (1..MaxRows) ]

\* The tables listed: rows 1..MaxRows, each alice's or bob's.
ListedTables ==
    { [ id \in 1..MaxRows |->
          [ id |-> id, owner |-> owners[id], content_type |-> "product",
            ephemeral |-> FALSE ] ] :
      owners \in [1..MaxRows -> {"alice", "bob"}] }

\* The ids of the rows for_user(user) returns.
ForUserIds(u, conf, rows) ==
    {id \in 1..Len(rows) : for_user(u, conf, rows[id])}

ForUserInit ==
    /\ SeqIdle
    /\ QueryIdle
    /\ OpsIdle
    /\ ClauseIdle
    /\ settings \in Settings
    /\ user \in ListingUsers
    /\ model_filter = [id |-> NoneValue]
    /\ decision = [action |-> Unchecked]
    /\ store \in ListedTables
    /\ created = << >>
    /\ TableIdle
    /\ ClassIdle

\* ModelFilter.objects.for_user(request.user)
ForUser ==
    /\ decision.action = Unchecked
    /\ decision' = [action |-> "for_user",
                    ids |-> ForUserIds(user, settings, store)]
    /\ UNCHANGED <<settings, user, model_filter, store, created, classVars, seqVars,
                   queryVars, opsVars, clauseVars, tableVars>>

ForUserNext == ForUser

SpecForUser == ForUserInit /\ [][ForUserNext]_vars

-----------------------------------------------------------------------------
(* C1.                                                                      *)

\* The list C1 speaks of: cleaned_data without the forms marked for
\* deletion, given by positions instead of by the code's filter.
KeptPositions(data) == {i \in 1..Len(data) : ~data[i].DELETE}

IsOr(data, i) == data[i].field = OR_SEPARATOR

\* The next kept position after i, or 0.
NextKept(data, i) ==
    LET later == {j \in KeptPositions(data) : j > i} IN
    IF later = {} THEN 0 ELSE CHOOSE j \in later : \A k \in later : j <= k

SequenceRuleBroken(data) ==
    LET kept == KeptPositions(data) IN
    \/ kept = {}
    \/ \E i \in kept : (\A k \in kept : i <= k) /\ IsOr(data, i)
    \/ \E i \in kept : (\A k \in kept : k <= i) /\ IsOr(data, i)
    \/ \E i \in kept : /\ IsOr(data, i)
                       /\ NextKept(data, i) # 0
                       /\ IsOr(data, NextKept(data, i))

\* C1: clean_field_filters rejects exactly the lists whose remainder, after
\* the forms marked for deletion are dropped, is empty, starts with an OR
\* separator, ends with one or has two adjacent ones; and the outcome is the
\* same as on the remainder alone, so the deleted forms do not influence it.
C1_SequenceValidator ==
    formset_error # Unchecked =>
        /\ (formset_error # NoError) <=> SequenceRuleBroken(cleaned_data)
        /\ formset_error = clean_field_filters(NotDeleted(cleaned_data))
        /\ \A i \in 1..Len(cleaned_data) :
              cleaned_data[i].DELETE =>
                 \A f \in {"name", OR_SEPARATOR, NoneValue} :
                    clean_field_filters(
                        [cleaned_data EXCEPT ![i].field = f]) = formset_error

\* A list that is rejected for adjacent separators only once the deleted form
\* between them is dropped.
C1_Witness ==
    /\ formset_error = ErrConsecutiveOr
    /\ Len(cleaned_data) = 5
    /\ ~IsOr(cleaned_data, 1) /\ ~cleaned_data[1].DELETE
    /\ IsOr(cleaned_data, 2) /\ ~cleaned_data[2].DELETE
    /\ ~IsOr(cleaned_data, 3) /\ cleaned_data[3].DELETE
    /\ IsOr(cleaned_data, 4) /\ ~cleaned_data[4].DELETE
    /\ ~IsOr(cleaned_data, 5) /\ ~cleaned_data[5].DELETE

-----------------------------------------------------------------------------
(* C2.                                                                      *)

ClausePositions(stored) ==
    {i \in 1..Len(stored) : stored[i].field # OR_SEPARATOR}

OrPositions(stored) ==
    {i \in 1..Len(stored) : stored[i].field = OR_SEPARATOR}

\* No separator lies between positions i and j.
SameSegment(stored, i, j) ==
    \A k \in OrPositions(stored) : ~(i < k /\ k < j) /\ ~(j < k /\ k < i)

\* The condition of one clause on a row.
ClauseSelects(field, row) == Selects(make_query_filter(field), row)

\* The segments as C2 cuts them: between two neighbouring cuts, where
\* the cuts are the separators and the two ends of the list.  A segment may
\* be empty, and the AND of no condition is true.
Cuts(stored) == OrPositions(stored) \cup {0, Len(stored) + 1}

NextCut(stored, b) ==
    CHOOSE c \in Cuts(stored) :
        /\ c > b
        /\ \A d \in Cuts(stored) : d > b => c <= d

OrOfAllSegments(stored, row) ==
    \E b \in Cuts(stored) \ {Len(stored) + 1} :
        \A i \in (b + 1)..(NextCut(stored, b) - 1) :
            ClauseSelects(stored[i], row)

\* The OR over the segments that hold a clause, of the AND of their clauses.
OrOfClauseSegments(stored, row) ==
    \E i \in ClausePositions(stored) :
        \A j \in ClausePositions(stored) :
            SameSegment(stored, i, j) => ClauseSelects(stored[j], row)

\* The leaves of a Q tree from left to right, a negated leaf counted as one.
RECURSIVE Literals(_)
Literals(q) ==
    CASE q.op = "empty" -> << >>
      [] q.op = "leaf" -> <<q>>
      [] q.op = "not" -> <<q>>
      [] q.op = "and" -> Literals(q.left) \o Literals(q.right)
      [] q.op = "or" -> Literals(q.left) \o Literals(q.right)

RECURSIVE ClauseQueries(_)
ClauseQueries(stored) ==
    IF stored = << >> THEN << >>
    ELSE IF Head(stored).field = OR_SEPARATOR THEN ClauseQueries(Tail(stored))
    ELSE <<make_query_filter(Head(stored))>> \o ClauseQueries(Tail(stored))

Compiled == query.op # Unchecked

-----------------------------------------------------------------------------
(* C3.                                                                      *)

\* Every negation in a Q tree is the negation of one leaf.
RECURSIVE NegatesLeavesOnly(_)
NegatesLeavesOnly(q) ==
    CASE q.op = "empty" -> TRUE
      [] q.op = "leaf" -> TRUE
      [] q.op = "not" -> q.arg.op = "leaf"
      [] q.op = "and" -> NegatesLeavesOnly(q.left) /\ NegatesLeavesOnly(q.right)
      [] q.op = "or" -> NegatesLeavesOnly(q.left) /\ NegatesLeavesOnly(q.right)

\* The clause's comparison itself, before any negation.
ComparisonHolds(field, row) == ParamsHold(build_query_params(field), row)

\* C3: in the compiled query a negation stands only on single comparisons,
\* the k-th comparison is negated exactly when the k-th clause has negate
\* set, each clause's condition is its comparison, inverted exactly when
\* negate is set, and [A(negate), OR, B] selects the rows of (~A) | B, which
\* are not those of ~(A | B).
C3_NegateOneClause ==
    Compiled =>
        /\ NegatesLeavesOnly(query)
        /\ LET lits == Literals(query)
               clauses == SelectSeq(fields, LAMBDA f : f.field # OR_SEPARATOR)
           IN /\ Len(lits) = Len(clauses)
              /\ \A k \in 1..Len(lits) :
                    /\ (lits[k].op = "not") <=> clauses[k].negate
                    /\ \A row \in Rows :
                          Selects(lits[k], row) <=>
                             (ComparisonHolds(clauses[k], row)
                                 # clauses[k].negate)
        /\ ( /\ Len(fields) = 3
             /\ OrPositions(fields) = {2}
             /\ fields[1].negate
             /\ ~fields[3].negate )
           => /\ \A row \in Rows :
                    Selects(query, row) <=>
                       \/ ~ComparisonHolds(fields[1], row)
                       \/ ComparisonHolds(fields[3], row)
              /\ \E row \in Rows :
                    Selects(query, row) #
                       ~( \/ ComparisonHolds(fields[1], row)
                          \/ ComparisonHolds(fields[3], row) )

\* [A(negate), OR, B] compiled, A and B different comparisons.
C3_Witness ==
    /\ Compiled
    /\ Len(fields) = 3
    /\ fields[1].field = "name" /\ fields[1].negate
    /\ fields[2].field = OR_SEPARATOR
    /\ fields[3].field = "flammable" /\ ~fields[3].negate
    /\ query = QOr(QNot(QLeaf(build_query_params(fields[1]))),
                   QLeaf(build_query_params(fields[3])))

-----------------------------------------------------------------------------
(* C7. The operators of a field follow the category of its class.           *)

TextClasses ==
    {"CharField", "TextField", "FilePathField", "IPAddressField",
     "GenericIPAddressField"}
NumericClasses == {"DecimalField", "FloatField", "IntegerField"}

\* The category of a field class: that of the class or of a class it extends.
Category(class) ==
    IF Mro(class) \cap TextClasses # {} THEN "text"
    ELSE IF Mro(class) \cap NumericClasses # {} THEN "numeric"
    ELSE IF "DateField" \in Mro(class) THEN "date"
    ELSE IF "BooleanField" \in Mro(class) THEN "boolean"
    ELSE IF "UUIDField" \in Mro(class) THEN "uuid"
    ELSE "default"

CategoryKeys ==
    [ text |-> << "exact", "iexact", "contains", "icontains", "regex",
                  "iregex", "isempty", "isnull" >>,
      numeric |-> << "exact", "lt", "gt", "lte", "gte", "isnull" >>,
      date |-> << "exact", "lt", "gt", "lte", "gte", "isnull" >>,
      boolean |-> << "istrue", "isfalse", "isnull" >>,
      uuid |-> << "exact", "isnull" >>,
      default |-> << "exact", "isnull" >> ]

Keys(operators) == [i \in 1..Len(operators) |-> operators[i].key]

OperatorsComputed == field_operators # << >>

\* C7: every field path handed to get_field_operators gets exactly the
\* operator keys of the category of its field: text, numeric, date, boolean
\* and UUID fields (or fields of a class that extends one) their own list,
\* any other field the default list (exact, isnull).
C7_OperatorsByCategory ==
    OperatorsComputed =>
        /\ DOMAIN field_operators = {field_paths[i] : i \in 1..Len(field_paths)}
        /\ \A path \in DOMAIN field_operators :
              Keys(field_operators[path])
                  = CategoryKeys[Category(ModelFields[model][path])]

\* The tests' case: a Mock gets the defaults, a URLField the text operators.
C7_Witness ==
    /\ model = "mocked"
    /\ field_paths = << "mock", "char" >>
    /\ OperatorsComputed
    /\ Keys(field_operators["mock"]) = << "exact", "isnull" >>
    /\ Keys(field_operators["char"]) = CategoryKeys["text"]

-----------------------------------------------------------------------------
(* C4 - C6. The validation of one clause.                                   *)

Cleaned == form.state = "cleaned"

Has(messages, message) == \E i \in 1..Len(messages) : messages[i] = message

\* The operators that need no value.
NoValueOperatorKeys == {IS_NULL, IS_TRUE, IS_FALSE, IS_EMPTY}

ValueDiscarded ==
    /\ form.cleaned_data.value = ""
    /\ ~form.value_required
    /\ form.errors.value = << >>

\* C4 as stated: whenever the operator is a no-value operator, the cleaned
\* value is the empty string, the value input is no longer required and no
\* error remains on the value input.
C4_ValueDiscarded ==
    (Cleaned /\ form_data.operator \in NoValueOperatorKeys) => ValueDiscarded

\* C4, amended: whenever the operator is a no-value operator and the field
\* of the clause is one of the field choices (a filterable field or the OR
\* separator), the cleaned value is the empty string, the value input is no
\* longer required and no error remains on the value input.
C4_ValueDiscardedForFieldChoice ==
    ( /\ Cleaned
      /\ form_data.operator \in NoValueOperatorKeys
      /\ form_data.field \in FieldChoices(form_model) ) => ValueDiscarded

\* Junk that is no boolean is dropped for "istrue" on a boolean field.
C4_Witness ==
    /\ Cleaned
    /\ form_model = "product"
    /\ form_data.field = "flammable"
    /\ form_data.operator = IS_TRUE
    /\ form_data.value = "junk"
    /\ ValueDiscarded

LegalOperators(target, field) ==
    IF field \in DOMAIN ModelFields[target]
    THEN LET keys == CategoryKeys[Category(ModelFields[target][field])]
         IN  {keys[i] : i \in 1..Len(keys)}
    ELSE {}

\* C6 as stated: in a clause whose field is not the separator the operator
\* is accepted only if it is a legal operator of the field, and any other
\* operator gets the operator-not-allowed error on the operator input.
C6_OperatorLegalOrNotAllowed ==
    (Cleaned /\ form_data.field # OR_SEPARATOR) =>
        /\ form.errors.operator = << >> =>
              form_data.operator \in LegalOperators(form_model, form_data.field)
        /\ form_data.operator \notin LegalOperators(form_model, form_data.field)
              => Has(form.errors.operator, ErrOperatorNotAllowed)

\* C6, amended: in a clause whose field is a filterable field of the target
\* model the operator is accepted exactly if it is a legal operator of the
\* field; any other operator of the catalog gets the operator-not-allowed
\* error on the operator input, a missing operator or one outside the
\* catalog the required or invalid-choice error of the operator input.  With
\* a field that is missing or not offered no operator-not-allowed error is
\* raised.  gte is accepted on an integer field and rejected on a boolean
\* and on a text field.
C6_OperatorLegalForField ==
    Cleaned =>
        LET legal == LegalOperators(form_model, form_data.field) IN
        /\ form_data.field \in DOMAIN ModelFields[form_model] =>
              /\ form.errors.operator = << >> <=> form_data.operator \in legal
              /\ form_data.operator \in OperatorKeys \ legal =>
                    form.errors.operator = <<ErrOperatorNotAllowed>>
              /\ form_data.operator \notin OperatorKeys =>
                    form.errors.operator
                        \in {<<ErrRequired>>, <<ErrInvalidChoice>>}
        /\ form_data.field \notin FieldChoices(form_model) =>
              ~Has(form.errors.operator, ErrOperatorNotAllowed)
        /\ form_data.operator = "gte" =>
              /\ (form_model = "purchase" /\ form_data.field = "quantity")
                    => form.errors.operator = << >>
              /\ (form_model = "product"
                    /\ form_data.field \in {"flammable", "name"})
                    => form.errors.operator = <<ErrOperatorNotAllowed>>

\* gte on a boolean field.
C6_Witness ==
    /\ Cleaned
    /\ form_model = "product"
    /\ form_data.field = "flammable"
    /\ form_data.operator = "gte"
    /\ form.errors.operator = <<ErrOperatorNotAllowed>>

-----------------------------------------------------------------------------
(* C8. The owner and the target model of a filter after edits.              *)

\* C8: every stored filter has the owner and the target model it was
\* created with, whoever has changed it since.
C8_OwnerAndTargetFixed ==
    \A id \in 1..Len(store) :
        /\ store[id].owner = created[id].owner
        /\ store[id].content_type = created[id].content_type

-----------------------------------------------------------------------------
(* C9, C10. Access to a filter needs access to its target model, and gives  *)
(* the owner every action.                                                  *)

Decided == decision.action \in {"view", "change", "delete"}

AboutFilter == ~IsNone(model_filter)

HoldsTargetAccess ==
    \/ ModelPerm("view", model_filter.content_type) \in user.perms
    \/ ModelPerm("change", model_filter.content_type) \in user.perms

\* C9: a user who is no superuser and holds neither the view nor the change
\* permission on the target model of the filter is denied view, change and
\* delete, whoever owns the filter, whatever the owner-only settings and the
\* permissions on model filters are.
C9_NoTargetAccessDenied ==
    ( /\ Decided
      /\ AboutFilter
      /\ ~user.is_superuser
      /\ ~HoldsTargetAccess ) => ~decision.granted

\* The owner, holding every permission on model filters, with every
\* owner-only setting off, is denied delete.
C9_Witness ==
    /\ decision = [action |-> "delete", granted |-> FALSE]
    /\ AboutFilter
    /\ model_filter.owner = user.name
    /\ model_filter.content_type = "product"
    /\ ~user.is_superuser
    /\ user.perms = FilterPerms \cup {ModelPerm("view", "customer")}
    /\ ~settings.view_owner_only
    /\ ~settings.change_owner_only
    /\ ~settings.delete_owner_only

\* C10: the owner of a filter who holds the view or the change permission on
\* its target model is granted view, change and delete, whatever the
\* owner-only settings and the permissions on model filters are.
C10_OwnerGranted ==
    ( /\ Decided
      /\ AboutFilter
      /\ model_filter.owner = user.name
      /\ HoldsTargetAccess ) => decision.granted

\* An owner with nothing but the view permission on the target model, every
\* owner-only setting on, is granted change.
C10_Witness ==
    /\ decision = [action |-> "change", granted |-> TRUE]
    /\ AboutFilter
    /\ model_filter.owner = user.name
    /\ model_filter.content_type = "product"
    /\ ~user.is_superuser
    /\ user.perms = {ModelPerm("view", "product")}
    /\ settings.view_owner_only
    /\ settings.change_owner_only
    /\ settings.delete_owner_only

-----------------------------------------------------------------------------
(* C11 - C14. Owner-only settings, permissions on model filters, superusers *)
(* and the permission to add.                                               *)

\* The owner-only setting of the action decided on.
OwnerOnly ==
    CASE decision.action = "view" -> settings.view_owner_only
      [] decision.action = "change" -> settings.change_owner_only
      [] decision.action = "delete" -> settings.delete_owner_only

NonOwner == model_filter.owner # user.name

\* C11: with the owner-only setting of an action on, a user who is neither a
\* superuser nor the owner of the filter is denied the action, whatever
\* permissions they hold on model filters, on this filter and on the target
\* model.
C11_OwnerOnlyDenied ==
    ( /\ Decided
      /\ AboutFilter
      /\ ~user.is_superuser
      /\ NonOwner
      /\ OwnerOnly ) => ~decision.granted

\* A non-owner holding every permission there is, on classes and on the
\* filter, is denied change while change is owner-only.
C11_Witness ==
    /\ decision = [action |-> "change", granted |-> FALSE]
    /\ AboutFilter
    /\ NonOwner
    /\ model_filter.content_type = "product"
    /\ ~user.is_superuser
    /\ FilterPerms \cup {ModelPerm("change", "product")} \subseteq user.perms
    /\ user.object_perms = FilterPerms
    /\ settings.change_owner_only
    /\ settings.use_guardian

\* Holding the permission for an action among granted: to view, the view or
\* the change permission, as the admin asks for it.
HoldsGrant(action, granted) ==
    \/ FilterPerm(action) \in granted
    \/ action = "view" /\ FilterPerm("change") \in granted

\* C12: with the owner-only setting of the action off, a non-owner with
\* access to the target model is granted the action exactly if they hold the
\* permission for the action on model filters, or, with guardian in use, on
\* this filter.
C12_ClassOrObjectGrant ==
    ( /\ Decided
      /\ AboutFilter
      /\ ~user.is_superuser
      /\ NonOwner
      /\ HoldsTargetAccess
      /\ ~OwnerOnly ) =>
        ( decision.granted <=>
            \/ HoldsGrant(decision.action, user.perms)
            \/ /\ settings.use_guardian
               /\ HoldsGrant(decision.action, user.object_perms) )

\* C13: a superuser is granted view, change and delete on every filter, and
\* every user is granted them when no filter is given, whoever owns the
\* filter, whatever the owner-only settings and the access to the target
\* model are.
C13_SuperuserOrNoFilterGranted ==
    (Decided /\ (user.is_superuser \/ ~AboutFilter)) => decision.granted

\* A superuser deletes bob's filter while every action is owner-only.
C13_Witness ==
    /\ decision = [action |-> "delete", granted |-> TRUE]
    /\ user.is_superuser
    /\ AboutFilter
    /\ NonOwner
    /\ settings.view_owner_only
    /\ settings.change_owner_only
    /\ settings.delete_owner_only

\* C14: adding is denied when the request names no target model; when it
\* names one, adding is granted exactly to a superuser and to a user who
\* holds the view or the change permission on that model.
C14_AddPermission ==
    decision.action = "add" =>
        IF decision.content_type = NoneValue
        THEN ~decision.granted
        ELSE decision.granted <=>
                \/ user.is_superuser
                \/ ModelPerm("view", decision.content_type) \in user.perms
                \/ ModelPerm("change", decision.content_type) \in user.perms

\* A user with nothing but the view permission on customers may add a filter
\* for customers.
C14_Witness ==
    /\ decision = [action |-> "add", content_type |-> "customer",
                   granted |-> TRUE]
    /\ ~user.is_superuser
    /\ user.perms = {ModelPerm("view", "customer")}

-----------------------------------------------------------------------------
(* C15. The model filters for_user returns.                                 *)

OwnIds == {id \in 1..Len(store) : store[id].owner = user.name}

\* The rows the user holds the view permission for: all of them with the
\* permission on model filters (a superuser has it), and with guardian in use
\* the rows the user holds it on.
ViewGrantedIds ==
    (IF user.is_superuser \/ FilterPerm("view") \in user.perms
     THEN 1..Len(store) ELSE {})
        \cup (IF settings.use_guardian
              THEN user.view_objects \cap 1..Len(store) ELSE {})

\* C15: for_user returns exactly the user's own filters when view is
\* owner-only, and otherwise exactly the user's own filters together with
\* those the user holds the view permission for; without a grant the user
\* gets their own filters only.
C15_ForUser ==
    decision.action = "for_user" =>
        /\ decision.ids = IF settings.view_owner_only THEN OwnIds
                          ELSE OwnIds \cup ViewGrantedIds
        /\ ( /\ ~user.is_superuser
             /\ FilterPerm("view") \notin user.perms
             /\ user.view_objects = {} ) => decision.ids = OwnIds

\* With guardian in use alice gets her own row 1 and bob's row 3, which she
\* holds the view permission on, and not bob's row 2.
C15_Witness ==
    /\ decision = [action |-> "for_user", ids |-> {1, 3}]
    /\ ~settings.view_owner_only
    /\ settings.use_guardian
    /\ ~user.is_superuser
    /\ user.perms = {}
    /\ user.view_objects = {3}
    /\ store[1].owner = "alice"
    /\ store[2].owner = "bob"
    /\ store[3].owner = "bob"

-----------------------------------------------------------------------------
(* The model filter of a changelist: ModelFilterListFilter                  *)
(* (admin/list_filters.py) over the tables of model filters and of their    *)
(* field filters.                                                           *)

\* Most model filters in the tables the applies start from.
MaxStored == 2

\* No model filter: the None of `.first()` on an empty queryset.
NoModelFilter == [id |-> NoneValue]

\* The rows of the customer changelist.
CustomerRows == [name : {"A", "B"}]

\* The rows of the changelist of a content type.
ChangelistRows(content_type) ==
    IF content_type = "product" THEN Rows ELSE CustomerRows

\* The clauses the authoring form stored for a model filter of a content
\* type, in the order they were entered.
EnteredFields(content_type) ==
    IF content_type = "product"
    THEN << [field |-> "name", operator |-> "exact", value |-> "A",
             negate |-> FALSE],
            [field |-> OR_SEPARATOR, operator |-> "exact", value |-> PyEmpty,
             negate |-> FALSE],
            [field |-> "flammable", operator |-> IS_TRUE, value |-> PyEmpty,
             negate |-> TRUE] >>
    ELSE << [field |-> "name", operator |-> "exact", value |-> "B",
             negate |-> TRUE] >>

\* The FieldFilter rows of a model filter: ids grow in the order of entry.
FieldFilterRows(f) ==
    LET entered == EnteredFields(f.content_type)
    IN  { [ id |-> (f.id - 1) * Len(entered) + i, model_filter |-> f.id,
            content_type |-> f.content_type, field |-> entered[i].field, operator |-> entered[i].operator,
            value |-> entered[i].value, negate |-> entered[i].negate ] :
          i \in 1..Len(entered) }

\* The ModelFilter tables the applies start from: rows 1..MaxStored, each of
\* alice or bob, ephemeral or kept, made in turn for the products and for the
\* customers.
StoredTables ==
    { { [ id |-> id, owner |-> t[id].owner,
          content_type |-> IF id % 2 = 1 THEN "product" ELSE "customer",
          ephemeral |-> t[id].ephemeral ] : id \in 1..MaxStored } :
      t \in [ 1..MaxStored -> [owner : {"alice", "bob"}, ephemeral : BOOLEAN] ] }

\* A queryset ordered by id (FieldFilter.Meta.ordering, and the primary key
\* order of `.first()`), as a list.
RECURSIVE OrderedById(_)
OrderedById(rows) ==
    IF rows = {} THEN << >>
    ELSE LET head == CHOOSE r \in rows : \A o \in rows : r.id <= o.id
         IN  <<head>> \o OrderedById(rows \ {head})

\* model_filter.fields.all(): the field filters of a model filter.
fields_all(f, field_filter_rows) ==
    OrderedById({r \in field_filter_rows : r.model_filter = f.id})

\* queryset.first(): the first row, None when there is no row.
first(rows) ==
    IF rows = {} THEN NoModelFilter ELSE OrderedById(rows)[1]

\* lookups(request, model_admin): the model filters offered on the changelist
\* of the content type.
lookups(u, conf, content_type, model_filter_rows) ==
    { f.id : f \in { r \in model_filter_rows :
                       for_user(u, conf, r) /\ r.content_type = content_type } }

\* A slip of queryset: the model filter is looked up among all model filters
\* of the content type, not among those of the user.
Selected_any_user(u, conf, value, content_type, model_filter_rows) ==
    { f \in model_filter_rows :
        /\ <<f.id>> = value
        /\ f.content_type = content_type }

\* ModelFilter.objects.with_related().for_user(request.user)
\*     .filter(id=self.value(), content_type=self.content_type)
Selected(u, conf, value, content_type, model_filter_rows) ==
    { f \in model_filter_rows :
        /\ for_user(u, conf, f)
        /\ <<f.id>> = value
        /\ f.content_type = content_type }

\* queryset.filter(build_query_filter(model_filter)).distinct()
Filtered(f, field_filter_rows, queryset_rows) ==
    { row \in queryset_rows :
        Selects(build_query_filter(fields_all(f, field_filter_rows)), row) }

\* A slip of queryset: the ephemeral model filter is kept after its use.
queryset_keeps_ephemeral(u, conf, value, content_type, model_filter_rows, field_filter_rows, queryset_rows) ==
    LET found == first(Selected(u, conf, value, content_type,
                                model_filter_rows))
    IN  IF value = << >> \/ IsNone(found)
        THEN [queryset |-> queryset_rows, model_filter |-> NoModelFilter,
              deleted |-> FALSE]
        ELSE [queryset |-> Filtered(found, field_filter_rows, queryset_rows),
              model_filter |-> found, deleted |-> FALSE]

\* A slip of queryset: an ephemeral model filter is purged whoever uses it.
queryset_purges_for_anyone(u, conf, value, content_type, model_filter_rows, field_filter_rows, queryset_rows) ==
    LET found == first(Selected(u, conf, value, content_type,
                                model_filter_rows))
    IN  IF value = << >> \/ IsNone(found)
        THEN [queryset |-> queryset_rows, model_filter |-> NoModelFilter,
              deleted |-> FALSE]
        ELSE [queryset |-> Filtered(found, field_filter_rows, queryset_rows),
              model_filter |-> found, deleted |-> found.ephemeral]

\* ModelFilterListFilter.queryset(request, queryset): the queryset returned,
\* the model filter found, and whether model_filter.delete() was called.
\* value is the parameter of the URL: << >> without one, <<id>> with one.
queryset(u, conf, value, content_type, model_filter_rows, field_filter_rows, queryset_rows) ==
    IF value = << >>
    THEN [queryset |-> queryset_rows, model_filter |-> NoModelFilter,
          deleted |-> FALSE]
    ELSE LET found == first(Selected(u, conf, value, content_type,
                                     model_filter_rows))
         IN  IF ~IsNone(found)
             THEN [queryset |-> Filtered(found, field_filter_rows,
                                         queryset_rows),
                   model_filter |-> found,
                   deleted |-> found.owner = u.name /\ found.ephemeral]
             ELSE [queryset |-> queryset_rows, model_filter |-> NoModelFilter,
                   deleted |-> FALSE]

\* The changelist asks a list filter for its queryset only if the filter has
\* lookups to offer (has_output); otherwise the listing is left as it is.
changelist_queryset(u, conf, value, content_type, model_filter_rows, field_filter_rows) ==
    IF lookups(u, conf, content_type, model_filter_rows) = {}
    THEN [queryset |-> ChangelistRows(content_type),
          model_filter |-> NoModelFilter, deleted |-> FALSE]
    ELSE queryset(u, conf, value, content_type, model_filter_rows,
                  field_filter_rows, ChangelistRows(content_type))

\* model_filter.delete(): the row goes, and by CASCADE its field filters.
DeletedFrom(model_filter_rows, f) == {r \in model_filter_rows : r.id # f.id}
CascadedFrom(field_filter_rows, f) ==
    {r \in field_filter_rows : r.model_filter # f.id}

\* The settings the applies run under: the two that for_user reads.
ApplySettings ==
    {conf \in Settings : ~conf.change_owner_only /\ ~conf.delete_owner_only}

ApplyInit ==
    /\ SeqIdle
    /\ QueryIdle
    /\ OpsIdle
    /\ ClauseIdle
    /\ AccessIdle
    /\ StoreIdle
    /\ settings \in ApplySettings
    /\ model_filters \in StoredTables
    /\ field_filters = UNION {FieldFilterRows(f) : f \in model_filters}
    /\ response = [action |-> Unchecked]
    /\ purged = {}
    /\ requests = << >>
    /\ ClassIdle

\* The changelist of a content type, requested by u with the model filter
\* parameter value.
Apply(u, value, content_type) ==
    /\ user_can_access_content_type(u, content_type)
    /\ LET result == changelist_queryset(u, settings, value, content_type,
                                         model_filters, field_filters)
       IN  /\ response' = [ action |-> "apply", user |-> u.name,
                            value |-> value, content_type |-> content_type,
                            queryset |-> result.queryset,
                            model_filter |-> result.model_filter,
                            deleted |-> result.deleted ]
           /\ IF result.deleted
              THEN /\ model_filters' =
                          DeletedFrom(model_filters, result.model_filter)
                   /\ field_filters' =
                          CascadedFrom(field_filters, result.model_filter)
                   /\ purged' = purged \cup {result.model_filter.id}
              ELSE UNCHANGED <<model_filters, field_filters, purged>>
    /\ UNCHANGED <<requests, settings, classVars, seqVars, queryVars, opsVars,
                   clauseVars, accessVars, storeVars>>

\* The values of the model filter parameter: none, the id of a stored row,
\* or an id no row ever had.
ApplyValues == {<< >>} \cup {<<id>> : id \in 1..(MaxStored + 1)}

ApplyNext ==
    \E u \in Staff, value \in ApplyValues, content_type \in ContentTypes :
        Apply(u, value, content_type)

SpecApply == ApplyInit /\ [][ApplyNext]_vars

-----------------------------------------------------------------------------
(* C16, C17.                                                                *)

\* The member of staff of a name.
StaffMember(name) == CHOOSE u \in Staff : u.name = name

\* The rows of its changelist that meet the compiled condition of f.
Matching(f) ==
    { row \in ChangelistRows(f.content_type) :
        Selects(build_query_filter(fields_all(f, field_filters)), row) }

\* The step is an apply of f: asked for by its id, on the changelist of its
\* content type, by a user that for_user lets reach it.
Applies(f) ==
    /\ response'.action = "apply"
    /\ response'.value = <<f.id>>
    /\ response'.content_type = f.content_type
    /\ for_user(StaffMember(response'.user), settings, f)

\* The step is an apply with the id of a model filter an earlier apply
\* removed: it finds no model filter, returns the changelist unfiltered and
\* changes no table.
SecondApplyNotFound ==
    \A id \in purged :
        response'.action = "apply" /\ response'.value = <<id>> =>
            /\ IsNone(response'.model_filter)
            /\ response'.queryset = ChangelistRows(response'.content_type)
            /\ ~response'.deleted
            /\ UNCHANGED <<model_filters, field_filters, purged>>

\* f and its field filters are gone after the step.
Removed(f) ==
    /\ \A r \in model_filters' : r.id # f.id
    /\ \A r \in field_filters' : r.model_filter # f.id
    /\ f.id \in purged'

\* C16 as stated: an apply of an ephemeral model filter, whoever asks for
\* it, returns the rows that meet its compiled condition and removes the
\* model filter, and a later apply with the same id finds nothing and
\* returns normally.
C16_ApplyOnceRemoves ==
    [][ /\ \A f \in model_filters :
              f.ephemeral /\ Applies(f) =>
                 /\ response'.queryset = Matching(f)
                 /\ Removed(f)
        /\ SecondApplyNotFound ]_vars

\* C16, amended: an apply of an ephemeral model filter by its owner returns
\* the rows that meet its compiled condition and removes the model filter
\* with its field filters; a later apply with the same id finds no model
\* filter and returns the changelist unfiltered, changing nothing.
C16_OwnerApplyOnceRemoves ==
    [][ /\ \A f \in model_filters :
              f.ephemeral /\ f.owner = response'.user /\ Applies(f) =>
                 /\ response'.queryset = Matching(f)
                 /\ response'.model_filter = f
                 /\ Removed(f)
        /\ SecondApplyNotFound ]_vars

\* The product filter 1 was applied by its owner and removed, and applied
\* again: the second apply found nothing and listed all four products.
C16_Witness ==
    /\ response.action = "apply"
    /\ response.value = <<1>>
    /\ response.content_type = "product"
    /\ 1 \in purged
    /\ IsNone(response.model_filter)
    /\ response.queryset = Rows
    /\ \A r \in model_filters : r.id # 1

\* C17: an apply deletes exactly the model filter it is asked for, reaches
\* through for_user on the changelist of its content type, that is ephemeral
\* and owned by the requester, together with its field filters; nothing else
\* in the two tables changes, whatever the apply.
C17_DeletesOwnEphemeralOnly ==
    [][ response'.action = "apply" =>
          LET deleted == { f \in model_filters :
                             /\ Applies(f)
                             /\ f.ephemeral
                             /\ f.owner = response'.user }
          IN  /\ model_filters' = model_filters \ deleted
              /\ field_filters' =
                    { r \in field_filters :
                        \A f \in deleted : r.model_filter # f.id }
              /\ response'.deleted <=> deleted # {} ]_vars

\* Alice applied bob's ephemeral product filter with her object permission
\* and it is still stored with its three field filters, after another
\* model filter was removed by its owner's apply.
C17_Witness ==
    /\ response.action = "apply"
    /\ response.user = "alice"
    /\ ~IsNone(response.model_filter)
    /\ response.model_filter.id = 1
    /\ response.model_filter.owner = "bob"
    /\ response.model_filter.ephemeral
    /\ ~response.deleted
    /\ response.model_filter \in model_filters
    /\ Cardinality({r \in field_filters : r.model_filter = 1}) = 3
    /\ purged = {2}

-----------------------------------------------------------------------------
(* The add and change views of the model filter admin                       *)
(* (admin/model_filter.py) with the inline formset of field filters         *)
(* (admin/field_filter_inline.py, forms/inline.py), over the two tables.    *)

\* Most inline forms posted in one request.
MaxPosted == 3

\* The model filter that is stored before the requests: alice's, for the
\* products, with its three field filters.
StoredBefore ==
    [id |-> 1, owner |-> "alice", content_type |-> "product",
     ephemeral |-> FALSE]

\* The highest id the FieldFilter table gives out.
MaxFieldFilterId == Cardinality(FieldFilterRows(StoredBefore)) + MaxPosted + 1

\* The initial data of an extra inline form: the declared initial values of
\* operator and negate, nothing else.
ExtraInitial ==
    [field |-> "", operator |-> "exact", value |-> "", negate |-> FALSE]

\* What is posted for a clause: a condition on the name, the OR separator,
\* an operator the name does not take.
PostedName ==
    [field |-> "name", operator |-> "exact", value |-> "A", negate |-> FALSE]
PostedOr ==
    [field |-> OR_SEPARATOR, operator |-> "exact", value |-> "",
     negate |-> FALSE]
PostedNotAllowed ==
    [field |-> "name", operator |-> "gte", value |-> "A", negate |-> FALSE]

\* The initial data of the inline form of a stored field filter.
InstanceData(r) ==
    [field |-> r.field, operator |-> r.operator, value |-> r.value,
     negate |-> r.negate]

\* The inline form posted for a stored field filter: as it is, turned into
\* the other kind of clause, with an operator that is not allowed, or marked
\* for deletion.
InitialForms(r) ==
    { [instance |-> <<r.id>>, data |-> InstanceData(r), DELETE |-> FALSE],
      [instance |-> <<r.id>>,
       data |-> IF r.field = OR_SEPARATOR THEN PostedName ELSE PostedOr,
       DELETE |-> FALSE],
      [instance |-> <<r.id>>, data |-> PostedNotAllowed, DELETE |-> FALSE],
      [instance |-> <<r.id>>, data |-> InstanceData(r), DELETE |-> TRUE] }

\* The extra inline forms posted: a new clause, or a form left as it was
\* rendered.
ExtraForms ==
    { [instance |-> << >>, data |-> d, DELETE |-> FALSE] :
      d \in {PostedName, PostedOr, PostedNotAllowed, ExtraInitial} }

\* The formsets posted for a model filter: one form for each of its field
\* filters in stored order, then up to `extra` more forms.
RECURSIVE PostedFormsets(_, _)
PostedFormsets(stored, extra) ==
    IF stored # << >>
    THEN { <<o>> \o rest : o \in InitialForms(Head(stored)),
                           rest \in PostedFormsets(Tail(stored), extra) }
    ELSE IF extra = 0 THEN { << >> }
    ELSE { << >> } \cup
         { <<o>> \o rest : o \in ExtraForms,
                           rest \in PostedFormsets(<< >>, extra - 1) }

\* full_clean() of the clause form for each content type and each posted
\* clause.
PostedData ==
    {PostedName, PostedOr, PostedNotAllowed, ExtraInitial}
        \cup {InstanceData(r) : r \in FieldFilterRows(StoredBefore)}
CleanedClauses ==
    [ target \in ContentTypes |-> [ d \in PostedData |-> full_clean(target, d) ] ]

\* form.has_changed(): the posted data differs from the initial data of the
\* form, the DELETE checkbox included.
has_changed(posted, field_filter_rows) ==
    \/ posted.DELETE
    \/ IF posted.instance = << >> THEN posted.data # ExtraInitial
       ELSE \E r \in field_filter_rows :
               <<r.id>> = posted.instance /\ posted.data # InstanceData(r)

\* All messages in the errors of a cleaned clause form.
Messages(f) ==
    UNION { {f.errors[name][i] : i \in 1..Len(f.errors[name])} :
            name \in DOMAIN f.errors }

\* The inline form after its full_clean: an extra form that has not changed
\* is permitted to be empty and gets an empty cleaned_data; any other form
\* is cleaned as a clause.  field and DELETE are what cleaned_data.get
\* returns for them.
CleanedForm(target, posted, field_filter_rows) ==
    IF posted.instance = << >> /\ ~has_changed(posted, field_filter_rows)
    THEN [errors |-> {}, field |-> NoneValue, DELETE |-> FALSE,
          cleaned_data |-> ExtraInitial]
    ELSE LET f == CleanedClauses[target][posted.data]
         IN  [errors |-> Messages(f), field |-> f.cleaned_data.field,
              DELETE |-> posted.DELETE, cleaned_data |-> f.cleaned_data]

\* formset.errors: the errors of the forms that are not marked for deletion.
FormsetErrors(cleaned) ==
    UNION { cleaned[i].errors : i \in {j \in 1..Len(cleaned) :
                                         ~cleaned[j].DELETE} }

\* A slip of clean(): the sequence rules are checked whatever the forms'
\* errors are.
inline_clean_always(cleaned) == clean_field_filters(cleaned)

\* FieldFilterInlineFormset.clean(): the message of its ValidationError, or
\* NoError.
inline_clean(cleaned) ==
    IF FormsetErrors(cleaned) = {} THEN clean_field_filters(cleaned)
    ELSE NoError

\* save_existing_objects and save_new_objects of the formset: the forms
\* marked for deletion delete their row, the other changed forms of a row
\* update it, and each changed extra form makes a row with the next id.
NextId(rows) ==
    LET ids == {r.id : r \in rows} \cup {0}
    IN  1 + CHOOSE id \in ids : \A o \in ids : o <= id

save_existing_objects(posted, cleaned, field_filter_rows) ==
    LET deleted == { r \in field_filter_rows :
                       \E i \in 1..Len(posted) :
                          posted[i].instance = <<r.id>> /\ posted[i].DELETE }
        saved(r) ==
            IF \E i \in 1..Len(posted) :
                  /\ posted[i].instance = <<r.id>>
                  /\ has_changed(posted[i], field_filter_rows)
            THEN LET i == CHOOSE j \in 1..Len(posted) :
                             posted[j].instance = <<r.id>>
                 IN  [r EXCEPT !.field = cleaned[i].cleaned_data.field,
                               !.operator = cleaned[i].cleaned_data.operator,
                               !.value = cleaned[i].cleaned_data.value,
                               !.negate = cleaned[i].cleaned_data.negate]
            ELSE r
    IN  { saved(r) : r \in field_filter_rows \ deleted }

RECURSIVE save_new_objects(_, _, _, _, _)
save_new_objects(posted, cleaned, i, new_object, field_filter_rows) ==
    IF i > Len(posted) THEN field_filter_rows
    ELSE IF \/ posted[i].instance # << >>
            \/ ~has_changed(posted[i], field_filter_rows)
            \/ posted[i].DELETE
         THEN save_new_objects(posted, cleaned, i + 1, new_object,
                               field_filter_rows)
         ELSE save_new_objects(posted, cleaned, i + 1, new_object,
                  field_filter_rows \cup
                  { [ id |-> NextId(field_filter_rows),
                      model_filter |-> new_object.id,
                      content_type |-> new_object.content_type,
                      field |-> cleaned[i].cleaned_data.field,
                      operator |-> cleaned[i].cleaned_data.operator,
                      value |-> cleaned[i].cleaned_data.value,
                      negate |-> cleaned[i].cleaned_data.negate ] })

\* A slip of all_valid: the formset is saved when its forms are valid,
\* whatever its own clean() raised.
SaveValidForms(new_object, posted, cleaned, model_filter_rows, field_filter_rows) ==
    LET errors == FormsetErrors(cleaned) \cup
                  ({inline_clean(cleaned)} \ {NoError})
    IN  IF FormsetErrors(cleaned) = {}
        THEN [ saved |-> TRUE, errors |-> errors,
               model_filters |->
                   DeletedFrom(model_filter_rows, new_object)
                       \cup {new_object},
               field_filters |->
                   save_new_objects(posted, cleaned, 1, new_object,
                       save_existing_objects(posted, cleaned,
                                             field_filter_rows)) ]
        ELSE [ saved |-> FALSE, errors |-> errors,
               model_filters |-> model_filter_rows,
               field_filters |-> field_filter_rows ]

changeform_view_saves_valid_forms(new_object, posted, model_filter_rows, field_filter_rows) ==
    SaveValidForms(new_object, posted,
                   [ i \in 1..Len(posted) |->
                       CleanedForm(new_object.content_type, posted[i],
                                   field_filter_rows) ],
                   model_filter_rows, field_filter_rows)

\* The end of changeform_view, with the cleaned inline forms: only if all of
\* the formset is valid, its own clean() included, are the model filter and
\* the formset saved; otherwise the form is shown again with the errors.
SaveAllValid(new_object, posted, cleaned, model_filter_rows, field_filter_rows) ==
    LET errors == FormsetErrors(cleaned) \cup
                  ({inline_clean(cleaned)} \ {NoError})
    IN  IF errors = {}
        THEN [ saved |-> TRUE, errors |-> errors,
               model_filters |->
                   DeletedFrom(model_filter_rows, new_object)
                       \cup {new_object},
               field_filters |->
                   save_new_objects(posted, cleaned, 1, new_object,
                       save_existing_objects(posted, cleaned,
                                             field_filter_rows)) ]
        ELSE [ saved |-> FALSE, errors |-> errors,
               model_filters |-> model_filter_rows,
               field_filters |-> field_filter_rows ]

\* changeform_view, once the model filter form is valid and save_form has
\* made new_object: each inline form of the formset is cleaned, then the
\* model filter and the formset are saved if all of it is valid.
changeform_view(new_object, posted, model_filter_rows, field_filter_rows) ==
    SaveAllValid(new_object, posted,
                 [ i \in 1..Len(posted) |->
                     CleanedForm(new_object.content_type, posted[i],
                                 field_filter_rows) ],
                 model_filter_rows, field_filter_rows)

\* The tables after a view, and what the view answered.
Answer(action, result) ==
    /\ \A r \in result.field_filters : r.id <= MaxFieldFilterId
    /\ model_filters' = result.model_filters
    /\ field_filters' = result.field_filters
    /\ response' = [action |-> action, saved |-> result.saved,
                    errors |-> result.errors]
    /\ UNCHANGED <<purged, requests, settings, classVars, seqVars, queryVars, opsVars,
                   clauseVars, accessVars, storeVars>>

\* The user that authors model filters: bob, who holds the permissions to
\* add, to view and to change model filters.
Authors == {u \in Staff : u.name = "bob"}

\* The settings of the site: a model filter is changed by its owner only.
AuthorSettings ==
    {conf \in Settings : /\ conf.change_owner_only
                         /\ ~conf.view_owner_only
                         /\ ~conf.delete_owner_only
                         /\ ~conf.use_guardian}

AuthorInit ==
    /\ SeqIdle
    /\ QueryIdle
    /\ OpsIdle
    /\ ClauseIdle
    /\ AccessIdle
    /\ StoreIdle
    /\ settings \in AuthorSettings
    /\ model_filters = {StoredBefore}
    /\ field_filters = FieldFilterRows(StoredBefore)
    /\ response = [action |-> Unchecked]
    /\ purged = {}
    /\ requests = << >>
    /\ ClassIdle

\* The add view for a content type, posted by u with a formset of extra
\* forms; each author adds one model filter.
AddView(u, content_type, posted) ==
    /\ \A f \in model_filters : f.owner # u.name
    /\ has_add_permission(u, content_type)
    /\ Answer("add",
              changeform_view(
                  save_form([ id |-> NextId(model_filters), owner |-> u.name,
                              content_type |-> content_type,
                              ephemeral |-> FALSE ], u, FALSE),
                  posted, model_filters, field_filters))

\* The change view of model filter f, posted by u with a formset for its
\* field filters and extra forms.
ChangeView(u, f, posted) ==
    /\ f \in model_filters
    /\ get_queryset(u, settings, f)
    /\ has_change_permission(u, settings, f)
    /\ Answer("change",
              changeform_view(save_form(f, u, FALSE), posted, model_filters,
                              field_filters))

AuthorNext ==
    \/ \E u \in Authors, content_type \in ContentTypes,
          posted \in PostedFormsets(<< >>, MaxPosted) :
          AddView(u, content_type, posted)
    \/ \E u \in Authors, f \in model_filters :
          \E posted \in PostedFormsets(fields_all(f, field_filters),
                           MaxPosted - Len(fields_all(f, field_filters))) :
             ChangeView(u, f, posted)

SpecAuthor == AuthorInit /\ [][AuthorNext]_vars

-----------------------------------------------------------------------------
(* C18, C19.                                                                *)

\* The messages of a clause form and of the formset's sequence rules.
ClauseMessages ==
    {ErrRequired, ErrInvalidChoice, ErrNull, ErrBlank, ErrOperatorNotAllowed}
        \cup ValueNotValidMessages
SequenceMessages == {ErrAtLeastOne, ErrFirstOr, ErrLastOr, ErrConsecutiveOr}

\* The step is an add or change request that was answered with a message of
\* the given kind.
FailsWith(messages) ==
    /\ response'.action \in {"add", "change"}
    /\ response'.errors \cap messages # {}

\* C18: an add or change request that fails on a clause or on a sequence
\* rule saves nothing: both tables are after it what they were before it.
C18_NothingSavedOnError ==
    [][ FailsWith(ClauseMessages) \/ FailsWith(SequenceMessages) =>
          /\ ~response'.saved
          /\ UNCHANGED <<model_filters, field_filters>> ]_vars

\* Bob's model filter holds two clauses; his last change request was
\* refused for ending on a separator and left them as they were.
C18_Witness ==
    /\ response.action = "change"
    /\ ~response.saved
    /\ response.errors = {ErrLastOr}
    /\ \E f \in model_filters :
          /\ f.owner = "bob"
          /\ Len(fields_all(f, field_filters)) = 2
          /\ \A i \in 1..2 : fields_all(f, field_filters)[i].field = "name"

\* The sequence rules on a stored list of field filters.
SequenceRuleKept(stored) ==
    /\ stored # << >>
    /\ stored[1].field # OR_SEPARATOR
    /\ stored[Len(stored)].field # OR_SEPARATOR
    /\ \A i \in 1..(Len(stored) - 1) :
          ~(stored[i].field = OR_SEPARATOR /\ stored[i + 1].field = OR_SEPARATOR)

\* C19: the field filters of every stored model filter, in the order of their
\* ids, are at least one, neither begin nor end with a separator, and have
\* no two separators next to each other.
C19_StoredSequenceRule ==
    \A f \in model_filters : SequenceRuleKept(fields_all(f, field_filters))

-----------------------------------------------------------------------------
(* Two changelist requests at once: the queries and the delete of           *)
(* ModelFilterListFilter (admin/list_filters.py), each a statement of its   *)
(* own on the database, interleaved.                                        *)

\* The requests.
Requests == {"first", "second"}

\* The user of a request.
RequestUser(r) == StaffMember(requests[r].user)

\* A slip of queryset: the model filter is never purged.
is_purged_never(u, f) == FALSE

\* `model_filter.owner == request.user and model_filter.ephemeral`
is_purged(u, f) == f.owner = u.name /\ f.ephemeral

\* The request returns the queryset it was given: no model filter applies.
Unfiltered(r) == [requests EXCEPT ![r].pc = "done"]

\* The queryset a request returns, evaluated when the changelist is shown:
\* the one it was given, filtered by the query compiled from the field
\* filters the request has fetched.
RequestQueryset(r) ==
    IF IsNone(requests[r].model_filter)
    THEN ChangelistRows(requests[r].content_type)
    ELSE { row \in ChangelistRows(requests[r].content_type) :
             Selects(build_query_filter(requests[r].fields), row) }

\* The requests start with the parameter set to the id of a stored model
\* filter, on the changelist of its content type, each by a user who may
\* see that changelist; response keeps the model filter as it was stored.
RaceInit ==
    /\ SeqIdle
    /\ QueryIdle
    /\ OpsIdle
    /\ ClauseIdle
    /\ AccessIdle
    /\ StoreIdle
    /\ settings \in ApplySettings
    /\ model_filters \in StoredTables
    /\ field_filters = UNION {FieldFilterRows(f) : f \in model_filters}
    /\ purged = {}
    /\ ClassIdle
    /\ \E f \in model_filters :
          /\ response = [action |-> "race", model_filter |-> f]
          /\ requests \in
                { [ r \in Requests |->
                      [ user |-> users[r], value |-> <<f.id>>,
                        content_type |-> f.content_type, pc |-> "lookups",
                        model_filter |-> NoModelFilter, fields |-> << >>,
                        deleted |-> 0 ] ] :
                  users \in [ Requests ->
                              { u.name : u \in
                                  { s \in Staff : user_can_access_content_type(
                                                      s, f.content_type) } } ] }

\* SimpleListFilter.__init__ runs lookups(); without lookups the changelist
\* leaves the list filter out.
Lookups(r) ==
    /\ requests[r].pc = "lookups"
    /\ requests' =
          IF lookups(RequestUser(r), settings, requests[r].content_type,
                     model_filters) = {}
          THEN Unfiltered(r)
          ELSE [requests EXCEPT ![r].pc = "select"]
    /\ UNCHANGED <<model_filters, field_filters, purged, response, settings,
                   classVars, seqVars, queryVars, opsVars, clauseVars, accessVars,
                   storeVars>>

\* `.first()` selects the model filter.
Select(r) ==
    /\ requests[r].pc = "select"
    /\ LET found == first(Selected(RequestUser(r), settings, requests[r].value,
                                   requests[r].content_type, model_filters))
       IN  requests' =
              IF IsNone(found) THEN Unfiltered(r)
              ELSE [requests EXCEPT ![r].pc = "prefetch",
                                    ![r].model_filter = found]
    /\ UNCHANGED <<model_filters, field_filters, purged, response, settings,
                   classVars, seqVars, queryVars, opsVars, clauseVars, accessVars,
                   storeVars>>

\* prefetch_related("fields") selects its field filters in a second query,
\* for build_query_filter to compile.
Prefetch(r) ==
    /\ requests[r].pc = "prefetch"
    /\ requests' =
          [requests EXCEPT
             ![r].pc = IF is_purged(RequestUser(r), requests[r].model_filter)
                       THEN "delete" ELSE "done",
             ![r].fields = fields_all(requests[r].model_filter, field_filters)]
    /\ UNCHANGED <<model_filters, field_filters, purged, response, settings,
                   classVars, seqVars, queryVars, opsVars, clauseVars, accessVars,
                   storeVars>>

\* model_filter.delete(): the rows with its id are deleted, be there one or
\* none, and the request goes on.
Delete(r) ==
    /\ requests[r].pc = "delete"
    /\ LET f == requests[r].model_filter
       IN  /\ requests' =
                 [requests EXCEPT
                    ![r].pc = "done",
                    ![r].deleted =
                        Cardinality({m \in model_filters : m.id = f.id})]
           /\ model_filters' = DeletedFrom(model_filters, f)
           /\ field_filters' = CascadedFrom(field_filters, f)
           /\ purged' = purged \cup {m.id : m \in {o \in model_filters :
                                                     o.id = f.id}}
    /\ UNCHANGED <<response, settings, classVars, seqVars, queryVars, opsVars,
                   clauseVars, accessVars, storeVars>>

RequestStep(r) == Lookups(r) \/ Select(r) \/ Prefetch(r) \/ Delete(r)

RaceNext == \E r \in Requests : RequestStep(r)

\* Each request is served by a thread of its own that runs to its end.
SpecRace ==
    /\ RaceInit
    /\ [][RaceNext]_vars
    /\ \A r \in Requests : WF_vars(RequestStep(r))

-----------------------------------------------------------------------------
(* C20.                                                                     *)

\* Both requests are by the owner of the model filter, which is ephemeral.
OwnersRace ==
    /\ response.action = "race"
    /\ response.model_filter.ephemeral
    /\ \A r \in Requests : requests[r].user = response.model_filter.owner

AllDone == \A r \in Requests : requests[r].pc = "done"

\* The request met the model filter already gone: its select found none, or
\* its delete found no row.
FoundGone(r) ==
    /\ requests[r].pc = "done"
    /\ IsNone(requests[r].model_filter) \/ requests[r].deleted = 0

\* C20: two requests of the owner for the same ephemeral model filter both
\* come to their end in every interleaving; then the model filter and its
\* field filters are gone, one request at least deleted the row, and a
\* request that met the row gone has ended as any other, with the changelist
\* filtered or unfiltered.
C20_ConcurrentApplies ==
    /\ [](OwnersRace /\ AllDone =>
            /\ \A f \in model_filters : f.id # response.model_filter.id
            /\ \A c \in field_filters :
                  c.model_filter # response.model_filter.id
            /\ \E r \in Requests : requests[r].deleted = 1
            /\ \A r \in Requests :
                  FoundGone(r) =>
                     RequestQueryset(r) \in
                        { ChangelistRows(requests[r].content_type),
                          { row \in ChangelistRows(requests[r].content_type) :
                              Selects(build_query_filter(
                                  OrderedById(FieldFilterRows(
                                      response.model_filter))), row) } })
    /\ (OwnersRace ~> AllDone)

\* Both requests of the owner selected the ephemeral model filter; the first
\* deleted the row and the second, deleting after it, found no row.
C20_Witness ==
    /\ OwnersRace
    /\ AllDone
    /\ requests["first"].deleted = 1
    /\ ~IsNone(requests["second"].model_filter)
    /\ requests["second"].deleted = 0
    /\ model_filters = {f \in model_filters : f.id # response.model_filter.id}

-----------------------------------------------------------------------------
(* C21.                                                                     *)

\* The first and the last form that is not marked for deletion.
FirstKept(data) ==
    CHOOSE i \in KeptPositions(data) : \A k \in KeptPositions(data) : i <= k
LastKept(data) ==
    CHOOSE i \in KeptPositions(data) : \A k \in KeptPositions(data) : k <= i

\* Two OR separators with no kept form between them.
AdjacentOr(data) ==
    \E i \in KeptPositions(data) :
       /\ IsOr(data, i)
       /\ NextKept(data, i) # 0
       /\ IsOr(data, NextKept(data, i))

\* The first rule the kept forms break, in the order empty, leading
\* separator, trailing separator, consecutive separators.
FirstRuleBroken(data) ==
    IF KeptPositions(data) = {} THEN ErrAtLeastOne
    ELSE IF IsOr(data, FirstKept(data)) THEN ErrFirstOr
    ELSE IF IsOr(data, LastKept(data)) THEN ErrLastOr
    ELSE IF AdjacentOr(data) THEN ErrConsecutiveOr
    ELSE NoError

-----------------------------------------------------------------------------
(* build_query_params on one stored clause (utilities.py).                  *)

\* The strings a stored clause has for its value.
StoredValues == {"", "junk", "0", "1"}

\* The FieldFilter rows build_query_params is run on: a clause on any
\* filterable field of a model, with any operator of the catalog.
StoredClauses ==
    UNION { [ content_type : {target}, field : DOMAIN ModelFields[target],
              operator : OperatorKeys, value : StoredValues,
              negate : BOOLEAN ] : target \in Models }

ParamsInit ==
    /\ SeqIdle
    /\ OpsIdle
    /\ ClauseIdle
    /\ AdminIdle
    /\ fields \in {<<field>> : field \in StoredClauses}
    /\ query = [op |-> Unchecked]

\* make_query_filter asks for the keyword argument of the clause.
BuildQueryParams ==
    /\ query.op = Unchecked
    /\ query' = [op |-> "params", params |-> build_query_params(fields[1])]
    /\ UNCHANGED <<fields, notQuery>>

ParamsNext == BuildQueryParams

SpecParams == ParamsInit /\ [][ParamsNext]_vars

-----------------------------------------------------------------------------
(* C22.                                                                     *)

\* The value an operator that takes no value compares the field with.
FixedValue(operator) ==
    CASE operator = IS_NULL -> NoneValue
      [] operator = IS_EMPTY -> PyEmpty
      [] operator = IS_TRUE -> PyTrue
      [] operator = IS_FALSE -> PyFalse

\* C22: build_query_params gives one keyword argument for a clause: for
\* isnull, isempty, istrue and isfalse the field itself bound to None, "",
\* True and False, whatever value is stored; for every other operator the
\* key field__operator bound to the stored value as the clause's own model
\* field converts it, and when that conversion raises, its exception.
C22_OneParameter ==
    query.op = "params" =>
        LET field == fields[1]
            python == to_python(
                          ModelFields[field.content_type][field.field],
                          field.value)
        IN  IF field.operator \in {IS_NULL, IS_EMPTY, IS_TRUE, IS_FALSE}
            THEN /\ query.params = [key |-> field.field, lookup |-> "",
                                    value |-> FixedValue(field.operator)]
                 /\ \A value \in StoredValues :
                       build_query_params([field EXCEPT !.value = value])
                           = query.params
            ELSE IF python.raised = NoneValue
            THEN query.params = [key |-> field.field,
                                 lookup |-> field.operator,
                                 value |-> python.value]
            ELSE query.params = python

\* A clause on an integer field got its stored string as an integer.
C22_Witness ==
    /\ query.op = "params"
    /\ fields[1].content_type = "part"
    /\ fields[1].field = "material"
    /\ fields[1].value = "1"
    /\ query.params = [key |-> "material", lookup |-> "gte",
                       value |-> "int(1)"]

-----------------------------------------------------------------------------
(* One add or change request, with the formset it posted kept next to the   *)
(* response.                                                                *)

\* The model filter the author changes: bob's own, for the products.
StoredOwn == [StoredBefore EXCEPT !.owner = "bob"]

SubmitInit ==
    /\ SeqIdle
    /\ QueryIdle
    /\ OpsIdle
    /\ ClauseIdle
    /\ AccessIdle
    /\ StoreIdle
    /\ settings \in AuthorSettings
    /\ model_filters = {StoredOwn}
    /\ field_filters = FieldFilterRows(StoredOwn)
    /\ response = [action |-> Unchecked]
    /\ purged = {}
    /\ requests = << >>
    /\ ClassIdle

\* The tables after the view, and what it answered to the formset posted
\* for a content type.
AnswerPosted(action, content_type, posted, result) ==
    /\ model_filters' = result.model_filters
    /\ field_filters' = result.field_filters
    /\ response' = [action |-> action, content_type |-> content_type,
                    posted |-> posted, saved |-> result.saved,
                    errors |-> result.errors]
    /\ UNCHANGED <<purged, requests, settings, classVars, seqVars, queryVars, opsVars,
                   clauseVars, accessVars, storeVars>>

\* The add view for a content type, posted by u with a formset of extra
\* forms.
SubmitAdd(u, content_type, posted) ==
    /\ response.action = Unchecked
    /\ has_add_permission(u, content_type)
    /\ AnswerPosted("add", content_type, posted,
              changeform_view(
                  save_form([ id |-> NextId(model_filters), owner |-> u.name,
                              content_type |-> content_type,
                              ephemeral |-> FALSE ], u, FALSE),
                  posted, model_filters, field_filters))

\* The change view of model filter f, posted by u with a formset for its
\* field filters and extra forms.
SubmitChange(u, f, posted) ==
    /\ response.action = Unchecked
    /\ f \in model_filters
    /\ get_queryset(u, settings, f)
    /\ has_change_permission(u, settings, f)
    /\ AnswerPosted("change", f.content_type, posted,
              changeform_view(save_form(f, u, FALSE), posted, model_filters,
                              field_filters))

SubmitNext ==
    \/ \E u \in Authors, content_type \in ContentTypes,
          posted \in PostedFormsets(<< >>, MaxPosted) :
          SubmitAdd(u, content_type, posted)
    \/ \E u \in Authors, f \in model_filters :
          \E posted \in PostedFormsets(fields_all(f, field_filters),
                           MaxPosted - Len(fields_all(f, field_filters))) :
             SubmitChange(u, f, posted)

SpecSubmit == SubmitInit /\ [][SubmitNext]_vars

-----------------------------------------------------------------------------
(* C23.                                                                     *)

\* The clauses of the posted formset as the sequence rules read them: the
\* field and the deletion mark of each form.
PostedClauses(posted) ==
    [ i \in 1..Len(posted) |->
        [field |-> posted[i].data.field, DELETE |-> posted[i].DELETE] ]

\* The forms of the posted formset that are clauses with an error: not
\* marked for deletion, and not an extra form left as it was rendered.
InvalidClauses(target, posted) ==
    { i \in 1..Len(posted) :
        /\ ~posted[i].DELETE
        /\ posted[i].instance # << >> \/ posted[i].data # ExtraInitial
        /\ Messages(CleanedClauses[target][posted[i].data]) # {} }

\* Every error of every invalid clause of the request is in the response.
ClauseErrorsReported ==
    \A i \in InvalidClauses(response.content_type, response.posted) :
       Messages(CleanedClauses[response.content_type][response.posted[i].data])
           \subseteq response.errors

-----------------------------------------------------------------------------
(* get_field_operators over the OPERATOR_MAP of any field filter form.      *)

\* Most entries of an operator map.
MaxMap == 3

\* The classes an operator map of the runs has for keys, and the operators
\* it maps a class to: one operator that names the class.
MapClasses ==
    {"Field", "CharField", "IntegerField", "PositiveSmallIntegerField"}
MapOperators(class) == << Op("exact", "Equals (" \o class \o ")") >>

\* The operator maps: dicts of up to MaxMap entries, in every order of
\* insertion.
RECURSIVE OperatorMaps(_)
OperatorMaps(n) ==
    IF n = 0 THEN { << >> }
    ELSE LET shorter == OperatorMaps(n - 1)
             longest == {items \in shorter : Len(items) = n - 1}
             Keyed(items, class) ==
                 \E i \in 1..Len(items) : items[i][1] = class
         IN  shorter \cup
             UNION { { Append(items, <<class, MapOperators(class)>>) :
                       class \in {c \in MapClasses : ~Keyed(items, c)} } :
                     items \in longest }

\* The classes of the field objects looked up.
LookedUpClasses ==
    {"PositiveSmallIntegerField", "IntegerField", "URLField", "Mock"}

MapInit ==
    /\ SeqIdle
    /\ QueryIdle
    /\ OpsIdle
    /\ ClauseIdle
    /\ AdminIdle

\* get_field_operators looks up the operators of a field of the class, with
\* a form that has the operator map.
LookUpOperators(class, operator_map) ==
    /\ response.action = Unchecked
    /\ response' = [action |-> "operators", class |-> class,
                    operator_map |-> operator_map,
                    operators |-> FieldOperators(class, operator_map)]
    /\ UNCHANGED <<model_filters, field_filters, purged, requests, settings,
                   classVars, seqVars, queryVars, opsVars, clauseVars, accessVars,
                   storeVars>>

MapNext ==
    \E class \in LookedUpClasses, operator_map \in OperatorMaps(MaxMap) :
       LookUpOperators(class, operator_map)

SpecMap == MapInit /\ [][MapNext]_vars

-----------------------------------------------------------------------------
(* C24.                                                                     *)

\* The positions of the map whose class is the field's class, and those
\* whose class the field is an instance of.
ExactMatches(class, operator_map) ==
    {i \in 1..Len(operator_map) : operator_map[i][1] = class}
InstanceMatches(class, operator_map) ==
    {i \in 1..Len(operator_map) : operator_map[i][1] \in Mro(class)}

\* C24: the operators of a field are those of the map entry for exactly its
\* class, wherever that entry stands in the map; with no such entry, those
\* of the first entry in the map's order whose class the field is an
\* instance of; with no such entry either, the default operators.
C24_ExactThenFirstSubclass ==
    response.action = "operators" =>
        LET exact == ExactMatches(response.class, response.operator_map)
            matches == InstanceMatches(response.class, response.operator_map)
        IN  IF exact # {}
            THEN \A i \in exact :
                    response.operators = response.operator_map[i][2]
            ELSE IF matches # {}
            THEN \E i \in matches :
                    /\ \A j \in matches : i <= j
                    /\ response.operators = response.operator_map[i][2]
            ELSE response.operators = DEFAULT_OPERATORS

\* The exact entry stands last, behind two classes the field extends.
C24_Witness ==
    /\ response.action = "operators"
    /\ response.class = "PositiveSmallIntegerField"
    /\ Len(response.operator_map) = 3
    /\ response.operator_map[1][1] = "Field"
    /\ response.operator_map[2][1] = "IntegerField"
    /\ response.operator_map[3][1] = "PositiveSmallIntegerField"
    /\ response.operators = MapOperators("PositiveSmallIntegerField")

-----------------------------------------------------------------------------
(* C25.                                                                      *)

\* The clause names a field of the target model, its operator is one that
\* needs a value, its value is present, and the field does not convert it.
ConversionFailed ==
    /\ Cleaned
    /\ form_data.field \in DOMAIN ModelFields[form_model]
    /\ form_data.operator \in OperatorKeys \ NO_VALUE_OPERATORS
    /\ form_data.value # ""
    /\ to_python(ModelFields[form_model][form_data.field],
                 form_data.value).raised # NoneValue

\* C25: for a clause on a field of the target model whose operator needs a
\* value and whose value is present, a conversion the field refuses, with a
\* ValidationError or with any other exception, ends the cleaning of the
\* form normally with exactly one error on the value input; its message
\* holds the internal type of the field and the text of the failure as the
\* conversion gave it, and the cleaned value is the submitted value.
C25_ConversionFailureReported ==
    ConversionFailed =>
        /\ form.errors.value =
              << "Value is not valid for field ("
                 \o get_internal_type(ModelFields[form_model][form_data.field])
                 \o "): "
                 \o to_python(ModelFields[form_model][form_data.field],
                              form_data.value).message >>
        /\ form.cleaned_data.value = form_data.value

\* The mock of the tests, whose conversion raises ValueError("Bad value!").
C25_Witness ==
    /\ ConversionFailed
    /\ form_model = "mocked"
    /\ form_data.field = "raising"
    /\ form_data.value = "junk"
    /\ form.errors.value =
          << "Value is not valid for field (MockField): Bad value!" >>
    /\ form.cleaned_data.value = "junk"

-----------------------------------------------------------------------------
(* The changelist of a target model and the change page of a model filter,  *)
(* requested with the id of a model filter: ModelFilterListFilter.queryset  *)
(* and ModelAdmin.changeform_view on a GET request.                         *)

\* self.get_queryset(request).get(pk=object_id), None when there is no such
\* row; a found model filter leaves its content type on the request.
get_object(u, conf, object_id, model_filter_rows) ==
    first({f \in model_filter_rows :
              get_queryset(u, conf, f) /\ f.id = object_id})

\* The answer of the change page: PermissionDenied unless the user may
\* change the object, on a POST, or view or change it, on a GET; a redirect
\* to the index with the message that the object does not exist when there
\* is none; else the form is shown, on a GET, or taken, on a POST.
change_page(u, conf, method, object_id, model_filter_rows) ==
    LET obj == get_object(u, conf, object_id, model_filter_rows)
        allowed == IF method = "POST"
                   THEN has_change_permission(u, conf, obj)
                   ELSE has_view_permission(u, conf, obj)
                        \/ has_change_permission(u, conf, obj)
    IN  IF ~allowed
        THEN [status |-> "PermissionDenied", model_filter |-> NoModelFilter]
        ELSE IF IsNone(obj)
        THEN [status |-> "does not exist", model_filter |-> NoModelFilter]
        ELSE [status |-> "form", model_filter |-> obj]

\* The answer of the delete page, which asks for the confirmation:
\* PermissionDenied unless the user may delete the object, the redirect when
\* there is none.
delete_page(u, conf, object_id, model_filter_rows) ==
    LET obj == get_object(u, conf, object_id, model_filter_rows)
    IN  IF ~has_delete_permission(u, conf, obj)
        THEN [status |-> "PermissionDenied", model_filter |-> NoModelFilter]
        ELSE IF IsNone(obj)
        THEN [status |-> "does not exist", model_filter |-> NoModelFilter]
        ELSE [status |-> "confirm", model_filter |-> obj]

\* The ModelFilter tables a visit meets: of the rows 1..MaxStored those still
\* stored, each of alice or bob, ephemeral or kept, for the products or for
\* the customers.
VisitTables ==
    { { [ id |-> id, owner |-> t[id].owner,
          content_type |-> t[id].content_type,
          ephemeral |-> t[id].ephemeral ] :
          id \in {i \in 1..MaxStored : t[i].stored} } :
      t \in [ 1..MaxStored -> [ owner : {"alice", "bob"},
                                content_type : ContentTypes,
                                ephemeral : BOOLEAN, stored : BOOLEAN ] ] }

VisitInit ==
    /\ SeqIdle
    /\ QueryIdle
    /\ OpsIdle
    /\ ClauseIdle
    /\ AccessIdle
    /\ StoreIdle
    /\ settings \in Settings
    /\ model_filters \in VisitTables
    /\ field_filters = UNION {FieldFilterRows(f) : f \in model_filters}
    /\ response = [action |-> Unchecked]
    /\ purged = {}
    /\ requests = << >>
    /\ ClassIdle

\* The change page of the model filter with the id, requested by u.
OpenChange(u, method, object_id) ==
    /\ LET result == change_page(u, settings, method, object_id,
                                 model_filters)
       IN  response' = [ action |-> "open", user |-> u.name,
                         method |-> method, object_id |-> object_id,
                         status |-> result.status,
                         model_filter |-> result.model_filter ]
    /\ UNCHANGED <<model_filters, field_filters, purged, requests, settings,
                   classVars, seqVars, queryVars, opsVars, clauseVars, accessVars,
                   storeVars>>

\* The delete page of the model filter with the id, requested by u.
OpenDelete(u, object_id) ==
    /\ LET result == delete_page(u, settings, object_id, model_filters)
       IN  response' = [ action |-> "delete", user |-> u.name,
                         object_id |-> object_id, status |-> result.status,
                         model_filter |-> result.model_filter ]
    /\ UNCHANGED <<model_filters, field_filters, purged, requests, settings,
                   classVars, seqVars, queryVars, opsVars, clauseVars, accessVars,
                   storeVars>>

\* One request is answered: an apply, or a change page or delete page.
VisitNext ==
    \/ /\ response.action = Unchecked
       /\ \E u \in Staff, value \in ApplyValues,
             content_type \in ContentTypes :
             Apply(u, value, content_type)
    \/ /\ response.action = Unchecked
       /\ \E u \in Staff, method \in {"GET", "POST"},
             object_id \in 1..(MaxStored + 1) :
             OpenChange(u, method, object_id)
    \/ /\ response.action = Unchecked
       /\ \E u \in Staff, object_id \in 1..(MaxStored + 1) :
             OpenDelete(u, object_id)

SpecVisit == VisitInit /\ [][VisitNext]_vars

-----------------------------------------------------------------------------
(* C26.                                                                      *)

\* An id that belongs to no model filter.
NoSuchId == MaxStored + 1

\* C26: an apply request with the id of a stored model filter that
\* for_user(user) does not hold gives the listing, the remembered model
\* filter and the tables that the same request gives with an id of no model
\* filter; and a request for the change page of a stored model filter that
\* the admin's queryset for the user does not hold gives the answer that the
\* request gives with an id of no model filter.
C26_ExistenceNotRevealed ==
    [][ \A f \in model_filters :
          /\ ( /\ response'.action = "apply"
               /\ response'.value = <<f.id>>
               /\ ~for_user(StaffMember(response'.user), settings, f) )
             => LET none == changelist_queryset(
                                StaffMember(response'.user), settings,
                                <<NoSuchId>>, response'.content_type,
                                model_filters, field_filters)
                IN  /\ response'.queryset = none.queryset
                    /\ response'.model_filter = none.model_filter
                    /\ response'.deleted = none.deleted
                    /\ UNCHANGED <<model_filters, field_filters, purged>>
          /\ ( /\ response'.action = "open"
               /\ response'.object_id = f.id
               /\ ~get_queryset(StaffMember(response'.user), settings, f) )
             => LET none == change_page(StaffMember(response'.user), settings,
                                        response'.method, NoSuchId,
                                        model_filters)
                IN  /\ response'.status = none.status
                    /\ response'.model_filter = none.model_filter
                    /\ UNCHANGED <<model_filters, field_filters, purged>>
      ]_vars

\* bob, who has model filters of his own to choose from on the products'
\* changelist, applied the id of a product filter of alice that he is not
\* shown: the listing is whole and the filter is still stored.
C26_Witness ==
    /\ response.action = "apply"
    /\ response.user = "bob"
    /\ response.content_type = "product"
    /\ lookups(StaffMember("bob"), settings, "product", model_filters) # {}
    /\ \E f \in model_filters :
          /\ response.value = <<f.id>>
          /\ f.owner = "alice"
          /\ f.content_type = "product"
          /\ ~for_user(StaffMember("bob"), settings, f)
    /\ response.queryset = ChangelistRows("product")
    /\ IsNone(response.model_filter)

-----------------------------------------------------------------------------
(* C27.                                                                      *)

\* The settings with the view owner-only setting the other way round.
ViewToggled(conf) == [conf EXCEPT !.view_owner_only = ~@]

\* The answer was given to a request to change (a POST to the change page)
\* or to delete model filter f, made by a user who is not its owner and has
\* access to its target model.
NonOwnerAsked(f) ==
    /\ response.action \in {"open", "delete"}
    /\ response.action = "open" => response.method = "POST"
    /\ response.object_id = f.id
    /\ f.owner # response.user
    /\ user_can_access_content_type(StaffMember(response.user), f.content_type)

\* C27 as stated: the answer to a non-owner with access to the target model
\* who asks to change, or to delete, a model filter is the answer the same
\* request gets when the view owner-only setting is the other way round and
\* every other setting, every permission and every row is the same.
C27_ViewToggleLeavesChangeAlone ==
    \A f \in model_filters :
        NonOwnerAsked(f) =>
            response.status =
                IF response.action = "open"
                THEN change_page(StaffMember(response.user),
                                 ViewToggled(settings), "POST", f.id,
                                 model_filters).status
                ELSE delete_page(StaffMember(response.user),
                                 ViewToggled(settings), f.id,
                                 model_filters).status

-----------------------------------------------------------------------------
(* Two authoring requests at once (admin/model_filter.py, forms/inline.py): *)
(* each is served by a thread of its own, and both go through the one       *)
(* ModelFilterAdmin instance of the site.  The content type of the request  *)
(* is kept on the request; the inline formset reads it from an attribute of *)
(* its class.                                                               *)

\* set_content_type(request, content_type): request.model_filter_content_type
set_content_type(request, content_type) ==
    [request EXCEPT !.model_filter_content_type = content_type]

\* get_content_type(request): getattr(request, "model_filter_content_type")
get_content_type(request) == request.model_filter_content_type

\* FieldFilterInlineFormset, the formset of the inline, is the first class;
\* it has no model_filter_content_type of its own.
FieldFilterInlineFormset == 1

\* A slip of the class factory: the formset of the inline itself is handed
\* out to every request.
get_formset_shared(classes) ==
    [classes |-> classes, formset |-> FieldFilterInlineFormset]

\* inline.get_formset(request, obj): inlineformset_factory makes a subclass
\* of the inline's formset on every call.
get_formset(classes) ==
    [ classes |-> Append(classes, [ base |-> FieldFilterInlineFormset,
                                    model_filter_content_type |-> NoneValue ]),
      formset |-> Len(classes) + 1 ]

\* self.model_filter_content_type of a formset: the attribute of its class,
\* or of the class that one extends.
class_attribute(classes, class) ==
    IF classes[class].model_filter_content_type # NoneValue
    THEN classes[class].model_filter_content_type
    ELSE IF classes[class].base # class
    THEN classes[classes[class].base].model_filter_content_type
    ELSE NoneValue

\* The clauses the two requests submit: a field of the customers only, a
\* field of the products only with a value it does not convert, and a field
\* both have.
ThreadClauses ==
    { [ state |-> "bound", field |-> "email", operator |-> "exact",
        value |-> "junk", negate |-> FALSE ],
      [ state |-> "bound", field |-> "width", operator |-> "exact",
        value |-> "junk", negate |-> FALSE ],
      [ state |-> "bound", field |-> "name", operator |-> "exact",
        value |-> "1", negate |-> TRUE ] }

\* The two requests are for filters on different target models.
ThreadsInit ==
    /\ SeqIdle
    /\ QueryIdle
    /\ OpsIdle
    /\ ClauseIdle
    /\ AccessIdle
    /\ StoreIdle
    /\ settings = [state |-> Unchecked]
    /\ model_filters = {}
    /\ field_filters = {}
    /\ purged = {}
    /\ response = [action |-> "threads"]
    /\ formset_classes =
          << [ base |-> FieldFilterInlineFormset,
               model_filter_content_type |-> NoneValue ] >>
    /\ requests \in
          { [ r \in Requests |->
                [ content_type |-> targets[r], data |-> data[r],
                  pc |-> "changeform_view",
                  model_filter_content_type |-> NoneValue,
                  formset |-> 0, model |-> NoneValue,
                  form |-> [state |-> Unchecked] ] ] :
            targets \in { t \in [Requests -> ContentTypes] :
                            t["first"] # t["second"] },
            data \in [Requests -> ThreadClauses] }

ThreadsUnchanged ==
    UNCHANGED <<model_filters, field_filters, purged, response, settings,
                seqVars, queryVars, opsVars, clauseVars, accessVars,
                storeVars>>

\* changeform_view: the content type of the request is stored on it.
ChangeformView(r) ==
    /\ requests[r].pc = "changeform_view"
    /\ requests' =
          [requests EXCEPT
             ![r] = [set_content_type(@, @.content_type)
                        EXCEPT !.pc = "get_formset"]]
    /\ UNCHANGED formset_classes
    /\ ThreadsUnchanged

\* get_formsets_with_inlines, the loop's head: the inline makes its formset
\* class.
GetFormset(r) ==
    /\ requests[r].pc = "get_formset"
    /\ formset_classes' = get_formset(formset_classes).classes
    /\ requests' =
          [requests EXCEPT
             ![r].formset = get_formset(formset_classes).formset,
             ![r].pc = "set_attribute"]
    /\ ThreadsUnchanged

\* get_formsets_with_inlines, the loop's body:
\* formset.model_filter_content_type = self.get_content_type(request)
SetAttribute(r) ==
    /\ requests[r].pc = "set_attribute"
    /\ formset_classes' =
          [formset_classes EXCEPT
             ![requests[r].formset].model_filter_content_type =
                 get_content_type(requests[r])]
    /\ requests' = [requests EXCEPT ![r].pc = "init"]
    /\ ThreadsUnchanged

\* FieldFilterInlineFormset.__init__ with _build_form_kwargs: the forms get
\* the model of self.model_filter_content_type and its field data.
FormsetInit(r) ==
    /\ requests[r].pc = "init"
    /\ requests' =
          [requests EXCEPT
             ![r].model = class_attribute(formset_classes, requests[r].formset),
             ![r].pc = "is_valid"]
    /\ UNCHANGED formset_classes
    /\ ThreadsUnchanged

\* formset.is_valid(): the form of the submitted clause is cleaned.
FormsetIsValid(r) ==
    /\ requests[r].pc = "is_valid"
    /\ requests' =
          [requests EXCEPT
             ![r].form = full_clean(requests[r].model, requests[r].data),
             ![r].pc = "done"]
    /\ UNCHANGED formset_classes
    /\ ThreadsUnchanged

ThreadStep(r) ==
    \/ ChangeformView(r)
    \/ GetFormset(r)
    \/ SetAttribute(r)
    \/ FormsetInit(r)
    \/ FormsetIsValid(r)

ThreadsNext == \E r \in Requests : ThreadStep(r)

SpecThreads == ThreadsInit /\ [][ThreadsNext]_vars

-----------------------------------------------------------------------------
(* C28.                                                                      *)

\* C28: in every interleaving of two authoring requests for filters on
\* different target models, the forms of each request are built for the
\* target model of that request, and the clause of each request is
\* validated with the field choices, the operators and the conversions of
\* that model.
C28_OwnTargetModel ==
    \A r \in Requests :
        /\ requests[r].pc \in {"is_valid", "done"}
              => requests[r].model = requests[r].content_type
        /\ requests[r].pc = "done"
              => requests[r].form =
                    full_clean(requests[r].content_type, requests[r].data)

\* The second request made its formset class after the first and was
\* validated to its end while the first request had set the attribute of
\* its class and not read it yet; its clause on `email` is valid for the
\* customers, and would not be for the products of the first request.
C28_Witness ==
    /\ requests["first"].pc = "init"
    /\ requests["first"].content_type = "product"
    /\ requests["second"].pc = "done"
    /\ requests["second"].content_type = "customer"
    /\ requests["first"].formset < requests["second"].formset
    /\ requests["second"].data.field = "email"
    /\ requests["second"].form.errors.field = << >>
    /\ full_clean("product", requests["second"].data).errors.field # << >>

-----------------------------------------------------------------------------
(* The access check and the apply, one after the other: has_view_permission *)
(* is asked about a stored model filter, then the user applies it on the    *)
(* changelist of its target model.                                          *)

\* The users: alice, a superuser or a member of staff with some of the
\* permissions on the products and on model filters, and with or without
\* guardian's view permission on model filter 1.
Viewers ==
    [ name : {"alice"}, is_superuser : {FALSE},
      perms : SUBSET {ModelPerm("view", "product"), FilterPerm("view"),
                      FilterPerm("change")},
      view_objects : SUBSET {1} ]
        \cup [ name : {"alice"}, is_superuser : {TRUE}, perms : {{}},
               view_objects : SUBSET {1} ]

ViewApplyInit ==
    /\ SeqIdle
    /\ QueryIdle
    /\ OpsIdle
    /\ ClauseIdle
    /\ StoreIdle
    /\ ClassIdle
    /\ settings \in ApplySettings
    /\ user \in Viewers
    /\ model_filters \in VisitTables
    /\ model_filter \in model_filters
    /\ decision = [action |-> Unchecked]
    /\ field_filters = UNION {FieldFilterRows(f) : f \in model_filters}
    /\ response = [action |-> Unchecked]
    /\ purged = {}
    /\ requests = << >>

\* The access check answers, then the user asks for the changelist with the
\* id of the model filter.
ViewApplyNext ==
    \/ /\ decision.action = Unchecked
       /\ HasViewPermission
    \/ /\ decision.action = "view"
       /\ response.action = Unchecked
       /\ Apply(user, <<model_filter.id>>, model_filter.content_type)

SpecViewApply == ViewApplyInit /\ [][ViewApplyNext]_vars

-----------------------------------------------------------------------------
(* C29.                                                                      *)

\* The access check granted the user the view of the model filter, and the
\* user asked for the changelist of its target model with its id.
ViewGrantedAndAsked ==
    /\ decision.action = "view"
    /\ decision.granted
    /\ response.action = "apply"

\* The listing was filtered by the model filter.
FilterApplied == response.model_filter = model_filter

\* C29 as stated: a model filter that the access check lets a user view is
\* one the user can apply to the listing of its target model, for
\* superusers and other users, whatever the view owner-only setting is.
C29_ViewableIsApplicable == ViewGrantedAndAsked => FilterApplied

\* C29, amended: a model filter that the access check lets a user view is
\* one the user can apply to the listing of its target model if the user
\* owns it, or if the view owner-only setting is off and the user holds the
\* view permission on all model filters, as every superuser does, or, with
\* guardian in use, on this model filter.
C29_ViewableIsApplicableToOwnerOrViewer ==
    ( /\ ViewGrantedAndAsked
      /\ \/ model_filter.owner = user.name
         \/ /\ ~settings.view_owner_only
            /\ \/ user.is_superuser
               \/ FilterPerm("view") \in user.perms
               \/ /\ settings.use_guardian
                  /\ model_filter.id \in user.view_objects )
        => FilterApplied

\* With the view owner-only setting off, a member of staff who holds the
\* view permission on model filters was granted the view of bob's filter and
\* applied it.
C29_Witness ==
    /\ ViewGrantedAndAsked
    /\ ~user.is_superuser
    /\ FilterPerm("view") \in user.perms
    /\ ~settings.view_owner_only
    /\ model_filter.owner = "bob"
    /\ FilterApplied

-----------------------------------------------------------------------------
(* Saving and applying in turn (admin/model_filter.py, list_filters.py):    *)
(* the add and the change view posted with one of the submit keys of the    *)
(* change form, and the changelist requested with a model filter.           *)

\* The submit keys of the change form: Django's "_save" and the two keys of
\* model_filters.constants, whose texts are not part of the sources.
FORM_SAVE == "_save"
FORM_SAVE_APPLY == "<save-apply>"
FORM_SAVE_APPLY_DISCARD == "<save-apply-discard>"
SubmitKeys == {FORM_SAVE, FORM_SAVE_APPLY, FORM_SAVE_APPLY_DISCARD}

\* _save_apply_redirect: the apply URL of the model filter if the request
\* has one of the apply keys, else the response of ModelAdmin.
save_apply_redirect(key, new_object) ==
    IF key \in {FORM_SAVE_APPLY, FORM_SAVE_APPLY_DISCARD}
    THEN <<new_object.content_type, new_object.id>>
    ELSE << >>

\* The formsets posted with a save: for a new model filter one clause on
\* the name, or a lone separator; for a stored one its clauses as they are,
\* or the first of them with an operator that is not allowed.
SavedFormsets(stored) ==
    IF stored = << >>
    THEN { << [instance |-> << >>, data |-> d, DELETE |-> FALSE] >> :
             d \in {PostedName, PostedOr} }
    ELSE { [ i \in 1..Len(stored) |->
               [ instance |-> <<stored[i].id>>,
                 data |-> IF i = 1 /\ spoiled THEN PostedNotAllowed
                          ELSE InstanceData(stored[i]),
                 DELETE |-> FALSE ] ] : spoiled \in BOOLEAN }

SaveInit ==
    /\ SeqIdle
    /\ QueryIdle
    /\ OpsIdle
    /\ ClauseIdle
    /\ AccessIdle
    /\ StoreIdle
    /\ ClassIdle
    /\ settings \in ApplySettings
    /\ model_filters = {StoredBefore}
    /\ field_filters = FieldFilterRows(StoredBefore)
    /\ response = [action |-> Unchecked]
    /\ purged = {}
    /\ requests = << >>

\* The tables after a save request, and what the view answered: the form
\* again with its errors, or the redirect of response_add / response_change.
AnswerSave(u, key, new_object, result) ==
    /\ \A r \in result.field_filters : r.id <= MaxFieldFilterId
    /\ model_filters' = result.model_filters
    /\ field_filters' = result.field_filters
    /\ response' = [ action |-> "save", user |-> u.name, key |-> key,
                     id |-> new_object.id, saved |-> result.saved,
                     redirect |-> IF result.saved
                                  THEN save_apply_redirect(key, new_object)
                                  ELSE << >> ]
    /\ UNCHANGED <<purged, requests, settings, classVars, seqVars, queryVars,
                   opsVars, clauseVars, accessVars, storeVars>>

\* The add view for a content type, posted by u with a submit key.
SaveAdd(u, content_type, posted, key) ==
    /\ NextId(model_filters) <= MaxStored
    /\ NextId(model_filters) \notin purged
    /\ has_add_permission(u, content_type)
    /\ LET new_object ==
              save_form([ id |-> NextId(model_filters), owner |-> u.name,
                          content_type |-> content_type,
                          ephemeral |-> FALSE ],
                        u, key = FORM_SAVE_APPLY_DISCARD)
       IN  AnswerSave(u, key, new_object,
                      changeform_view(new_object, posted, model_filters,
                                      field_filters))

\* The change view of model filter f, posted by u with a submit key.
SaveChange(u, f, posted, key) ==
    /\ f \in model_filters
    /\ get_queryset(u, settings, f)
    /\ has_change_permission(u, settings, f)
    /\ LET new_object == save_form(f, u, key = FORM_SAVE_APPLY_DISCARD)
       IN  AnswerSave(u, key, new_object,
                      changeform_view(new_object, posted, model_filters,
                                      field_filters))

SaveNext ==
    \/ \E u \in Staff, content_type \in ContentTypes,
          posted \in SavedFormsets(<< >>), key \in SubmitKeys :
          SaveAdd(u, content_type, posted, key)
    \/ \E u \in Staff, f \in model_filters, key \in SubmitKeys :
          \E posted \in SavedFormsets(fields_all(f, field_filters)) :
             SaveChange(u, f, posted, key)
    \/ \E u \in Staff, value \in ApplyValues, content_type \in ContentTypes :
          Apply(u, value, content_type)

SpecSave == SaveInit /\ [][SaveNext]_vars

-----------------------------------------------------------------------------
(* C30.                                                                      *)

\* The row of the model filter with the id, in a table that has it.
RowOf(rows, id) == CHOOSE f \in rows : f.id = id

\* C30: after every save request that was saved, an add or a change, the
\* model filter is ephemeral exactly if the request carried the
\* save-apply-discard key, whatever it was before, and its owner is the
\* user of the request; an apply leaves the flag of every model filter it
\* does not delete as it is; and when the user of a save-apply-discard
\* request next asks for the changelist of the target model with the id of
\* the model filter, the model filter is deleted.
C30_EphemeralFollowsLastSave ==
    [][ /\ (response'.action = "save" /\ response'.saved)
           => /\ \E f \in model_filters' : f.id = response'.id
              /\ RowOf(model_filters', response'.id).ephemeral
                    = (response'.key = FORM_SAVE_APPLY_DISCARD)
              /\ RowOf(model_filters', response'.id).owner = response'.user
        /\ response'.action = "apply" => model_filters' \subseteq model_filters
        /\ ( /\ response.action = "save"
             /\ response.saved
             /\ response.key = FORM_SAVE_APPLY_DISCARD
             /\ response'.action = "apply"
             /\ response'.user = response.user
             /\ <<response'.content_type>> \o response'.value
                   = response.redirect )
           => /\ response'.deleted
              /\ \A f \in model_filters' : f.id # response.id
      ]_vars

\* bob saved the model filter that alice had stored as a permanent one with
\* "apply and discard", and followed the redirect: his apply deleted it.
C30_Witness ==
    /\ response.action = "apply"
    /\ response.user = "bob"
    /\ response.deleted
    /\ response.model_filter.id = StoredBefore.id
    /\ StoredBefore.id \in purged
    /\ model_filters = {}

=============================================================================
